---------------------------- MODULE Spec2Model ----------------------------
(***************************************************************************)
(* Fountain screenplay plugin: the line classifiers (parseFountain of the  *)
(* preview pane, buildDecorations of the two editor extensions), the       *)
(* dual-dialogue assemblers (fountainToHTML, the retroactive pass of       *)
(* buildDecorations) and the preview view's render scheduling.             *)
(*                                                                         *)
(* A line of text is a sequence of one-character strings; a document is    *)
(* the sequence of its lines (text.split('\n')).  Indices are 1-based      *)
(* here and 0-based in the source.                                         *)
(***************************************************************************)
EXTENDS Integers, Sequences, FiniteSets, TLC

(***************************************************************************)
(* Bounds of the model.                                                    *)
(***************************************************************************)
\* Longest document explored with the full line catalogue.
MaxLines == 3

\* Longest document explored with the dual-dialogue line catalogue.
MaxDualLines == 5

\* Longest document explored with the scene-heading line catalogue.
MaxHeadingLines == 3

\* Longest document explored with the rendering line catalogue.
MaxRenderLines == 3

\* Longest document explored with the block-span line catalogue.
MaxSpanLines == 4

\* Longest document explored with the character-cue line catalogue.
MaxCueLines == 3

\* Longest document explored with the transition line catalogue.
MaxTransitionLines == 3

\* Longest document explored with the section-heading line catalogue.
MaxSectionLines == 3

\* The most print overlays in the document at one time.
MaxOverlays == 1

\* The most leaves in the right sidebar at one time.
MaxSideLeaves == 3

\* The most calls of activatePreview in one behaviour.
MaxActivations == 4

\* The most notices shown in one behaviour.
MaxNotices == 2

\* The most render invocations of the preview view in one behaviour.
MaxRenders == 3

(***************************************************************************)
(* Characters.                                                             *)
(***************************************************************************)
UpperSeq ==
    << "A","B","C","D","E","F","G","H","I","J","K","L","M",
       "N","O","P","Q","R","S","T","U","V","W","X","Y","Z" >>

LowerSeq ==
    << "a","b","c","d","e","f","g","h","i","j","k","l","m",
       "n","o","p","q","r","s","t","u","v","w","x","y","z" >>

Upper == { UpperSeq[n] : n \in 1..26 }

Lower == { LowerSeq[n] : n \in 1..26 }

Digit == { "0","1","2","3","4","5","6","7","8","9" }

\* The class \s of the patterns and the characters String.prototype.trim strips.
Whitespace == { " ", "\t" }

ToUpperChar(c) ==
    IF c \in Lower THEN UpperSeq[CHOOSE n \in 1..26 : LowerSeq[n] = c] ELSE c

ToUpperCase(s) == [ n \in 1..Len(s) |-> ToUpperChar(s[n]) ]

\* Character equality under a pattern's flags ("i": ignore case).
SameChar(a, b, flags) ==
    IF "i" \in flags THEN ToUpperChar(a) = ToUpperChar(b) ELSE a = b

\* s begins with the literal p.
StartsWith(s, p, flags) ==
    /\ Len(s) >= Len(p)
    /\ \A n \in 1..Len(p) : SameChar(s[n], p[n], flags)

\* s is the literal p.
IsLiteral(s, p, flags) == Len(s) = Len(p) /\ StartsWith(s, p, flags)

\* String.prototype.endsWith for a one-character suffix.
EndsWith(s, c) == Len(s) > 0 /\ s[Len(s)] = c

\* String.prototype.trim.
Trim(s) ==
    LET keep == { n \in 1..Len(s) : s[n] \notin Whitespace }
    IN  IF keep = {} THEN << >>
        ELSE SubSeq(s, CHOOSE n \in keep : \A m \in keep : n <= m,
                       CHOOSE n \in keep : \A m \in keep : n >= m)

(***************************************************************************)
(* regexPatterns: the five shared pattern objects.                         *)
(***************************************************************************)
\* The flags of each pattern literal.
\* The flags had each pattern been written with the g flag as well.
RegexFlagsGlobal ==
    [ sceneHeading  |-> {"i", "g"},
      transition    |-> {"i", "g"},
      centered      |-> {"g"},
      character     |-> {"g"},
      parenthetical |-> {"g"} ]

RegexFlags ==
    [ sceneHeading  |-> {"i"},
      transition    |-> {"i"},
      centered      |-> {},
      character     |-> {},
      parenthetical |-> {} ]

RegexNames == DOMAIN RegexFlags

SceneHeadingPrefixes ==
    { << "I","N","T","." >>, << "E","X","T","." >>, << "E","S","T","." >>,
      << "I","N","T","/","E","X","T","." >>, << "I","/","E","." >>,
      << "I","/","X","." >> }

TransitionLiterals ==
    { << "F","A","D","E"," ","T","O"," ","B","L","A","C","K","." >>,
      << "F","A","D","E"," ","O","U","T","." >>,
      << "C","U","T"," ","T","O"," ","B","L","A","C","K","." >> }

\* The scene-heading pattern had it been written without the i flag.
MatchSceneHeadingCased(s, flags) ==
    \/ \E p \in SceneHeadingPrefixes : StartsWith(s, p, {})
    \/ Len(s) >= 2 /\ s[1] = "." /\ s[2] # "."

\* /^(?:INT\.|EXT\.|EST\.|INT\/EXT\.|I\/E\.|I\/X\.).*|^\.[^.].*$/
MatchSceneHeading(s, flags) ==
    \/ \E p \in SceneHeadingPrefixes : StartsWith(s, p, flags)
    \/ Len(s) >= 2 /\ s[1] = "." /\ s[2] # "."

\* A character of the class [A-Z\s] under the pattern's flags.
InLetterOrSpace(c, flags) ==
    \/ c \in Upper
    \/ c \in Whitespace
    \/ "i" \in flags /\ c \in Lower

\* /^(?:[A-Z\s]+TO:|FADE TO BLACK\.|FADE OUT\.|CUT TO BLACK\.|>.*[^<])$/
MatchTransition(s, flags) ==
    \/ /\ Len(s) >= 4
       /\ IsLiteral(SubSeq(s, Len(s) - 2, Len(s)), << "T","O",":" >>, flags)
       /\ \A n \in 1..(Len(s) - 3) : InLetterOrSpace(s[n], flags)
    \/ \E p \in TransitionLiterals : IsLiteral(s, p, flags)
    \/ Len(s) >= 2 /\ s[1] = ">" /\ s[Len(s)] # "<"

\* /^>\s*.*\s*<$/
MatchCentered(s, flags) == Len(s) >= 2 /\ s[1] = ">" /\ s[Len(s)] = "<"

\* The optional extension (?: \([^)]+\)) of the character pattern.
IsExtension(g) ==
    /\ Len(g) >= 4
    /\ g[1] = " " /\ g[2] = "(" /\ g[Len(g)] = ")"
    /\ \A n \in 3..(Len(g) - 1) : g[n] # ")"

\* The tail \s*(?:\^)?$ of the character pattern.
IsCharacterTail(t) ==
    \/ \A n \in 1..Len(t) : t[n] \in Whitespace
    \/ /\ Len(t) >= 1 /\ t[Len(t)] = "^"
       /\ \A n \in 1..(Len(t) - 1) : t[n] \in Whitespace

\* /^[\s]*[A-Z0-9\s]+(?: \([^)]+\))?\s*(?:\^)?$/
MatchCharacter(s, flags) ==
    \E a \in 1..Len(s) : \E b \in a..Len(s) :
        /\ \A n \in 1..a : s[n] \in Upper \cup Digit \cup Whitespace
        /\ b = a \/ IsExtension(SubSeq(s, a + 1, b))
        /\ IsCharacterTail(SubSeq(s, b + 1, Len(s)))

\* /^\s*\([^)]+\)\s*$/
MatchParenthetical(s, flags) ==
    LET t == Trim(s)
    IN  /\ Len(t) >= 3
        /\ t[1] = "(" /\ t[Len(t)] = ")"
        /\ \A n \in 2..(Len(t) - 1) : t[n] # ")"

\* Whether pattern re matches s searched from position 0.
Matches(re, s) ==
    CASE re = "sceneHeading"  -> MatchSceneHeading(s, RegexFlags[re])
      [] re = "transition"    -> MatchTransition(s, RegexFlags[re])
      [] re = "centered"      -> MatchCentered(s, RegexFlags[re])
      [] re = "character"     -> MatchCharacter(s, RegexFlags[re])
      [] re = "parenthetical" -> MatchParenthetical(s, RegexFlags[re])


(***************************************************************************)
(* RegExp.prototype.test on a shared pattern object.  lastIndex is the     *)
(* object's only mutable field: a pattern with the g flag starts its       *)
(* search there and moves it; every pattern here is anchored with ^, so a  *)
(* search that starts past position 0 fails and resets it.                 *)
(***************************************************************************)
RegexTest(re, s, li) ==
    IF "g" \in RegexFlags[re]
    THEN LET ok == li[re] = 0 /\ Matches(re, s)
         IN  [ ok |-> ok,
               lastIndex |-> [li EXCEPT ![re] = IF ok THEN Len(s) ELSE 0] ]
    ELSE [ ok |-> Matches(re, s), lastIndex |-> li ]

\* A && chain of pattern tests, evaluated left to right until one fails;
\* tests[n].want is FALSE for a negated test.
RECURSIVE TestAll(_, _)
TestAll(tests, li) ==
    IF tests = << >> THEN [ ok |-> TRUE, lastIndex |-> li ]
    ELSE LET t == RegexTest(tests[1].re, tests[1].s, li)
         IN  IF t.ok = tests[1].want
             THEN TestAll(Tail(tests), t.lastIndex)
             ELSE [ ok |-> FALSE, lastIndex |-> t.lastIndex ]

\* What a chain yields when a condition before its first test is false.
NoTest(li) == [ ok |-> FALSE, lastIndex |-> li ]

\* /^#{1,6}\s/ (a fresh pattern object at every evaluation).
SectionHeadingTest(s) ==
    \E n \in 1..6 :
        /\ Len(s) > n
        /\ \A m \in 1..n : s[m] = "#"
        /\ s[n + 1] \in Whitespace

\* trimmed.match(/^(#+)/)[1].length
LeadingHashes(s) ==
    Cardinality({ n \in 1..Len(s) : \A m \in 1..n : s[m] = "#" })

Min(a, b) == IF a <= b THEN a ELSE b

\* The type had the level not been capped at 3.
SectionHeadingTypeUncapped(s) ==
    LET level == LeadingHashes(s)
    IN  CASE level = 1 -> "section-heading-1"
          [] level = 2 -> "section-heading-2"
          [] level = 3 -> "section-heading-3"
          [] OTHER     -> "section-heading-4"

\* `section-heading-${level}`
SectionHeadingType(s) ==
    LET level == Min(LeadingHashes(s), 3)
    IN  CASE level = 1 -> "section-heading-1"
          [] level = 2 -> "section-heading-2"
          [] OTHER     -> "section-heading-3"

(***************************************************************************)
(* The classifier state: the four lastLineWas... locals of each loop.      *)
(***************************************************************************)
ClassifierInit ==
    [ lastLineWasCharacter     |-> FALSE,
      lastLineWasParenthetical |-> FALSE,
      lastLineWasDialogue      |-> FALSE,
      lastLineWasEmpty         |-> TRUE ]

InDialogueContext(f) ==
    f.lastLineWasCharacter \/ f.lastLineWasParenthetical \/ f.lastLineWasDialogue

\* The assignments of one branch; e is lastLineWasEmpty after the line.
Flags(c, p, d, e) ==
    [ lastLineWasCharacter     |-> c,
      lastLineWasParenthetical |-> p,
      lastLineWasDialogue      |-> d,
      lastLineWasEmpty         |-> e ]

(***************************************************************************)
(* parseFountain: one iteration of its loop over rawLines.  The else-if    *)
(* chain is written one branch per operator, last branch first; each takes *)
(* the outcome of its own condition (a pattern test or a chain of tests)   *)
(* and hands the pattern state on to the next branch.                      *)
(***************************************************************************)
\* The record had rawText been given the trimmed text.
LineOutTrimmed(type, text, rawLine, nf, nli) ==
    [ line  |-> [ type |-> type, text |-> text, rawText |-> text ],
      flags |-> nf, lastIndex |-> nli ]

\* What one iteration yields: the record pushed, the locals, the pattern state.
LineOut(type, text, rawLine, nf, nli) ==
    [ line  |-> [ type |-> type, text |-> text, rawText |-> rawLine ],
      flags |-> nf, lastIndex |-> nli ]

\* The last three branches had the dialogue branch left
\* lastLineWasParenthetical as it was.
DialogueRuleKeepsFlag(f, rawLine, trimmed, t) ==
    IF t.ok
    THEN LineOut("parenthetical", trimmed, rawLine,
                 Flags(FALSE, TRUE, FALSE, FALSE), t.lastIndex)
    ELSE IF InDialogueContext(f)
    THEN LineOut("dialogue", trimmed, rawLine,
                 Flags(FALSE, f.lastLineWasParenthetical, TRUE, FALSE), t.lastIndex)
    ELSE LineOut("action", trimmed, rawLine,
                 Flags(FALSE, FALSE, FALSE, FALSE), t.lastIndex)

\* The last three branches had the final else left the line without a type.
DialogueRuleUntyped(f, rawLine, trimmed, t) ==
    IF t.ok
    THEN LineOut("parenthetical", trimmed, rawLine,
                 Flags(FALSE, TRUE, FALSE, FALSE), t.lastIndex)
    ELSE IF InDialogueContext(f)
    THEN LineOut("dialogue", trimmed, rawLine,
                 Flags(FALSE, FALSE, TRUE, FALSE), t.lastIndex)
    ELSE LineOut("", trimmed, rawLine,
                 Flags(FALSE, FALSE, FALSE, FALSE), t.lastIndex)

\* The branches "parenthetical", "dialogue" and the final else.
DialogueRule(f, rawLine, trimmed, t) ==
    IF t.ok
    THEN LineOut("parenthetical", trimmed, rawLine,
                 Flags(FALSE, TRUE, FALSE, FALSE), t.lastIndex)
    ELSE IF InDialogueContext(f)
    THEN LineOut("dialogue", trimmed, rawLine,
                 Flags(FALSE, FALSE, TRUE, FALSE), t.lastIndex)
    ELSE LineOut("action", trimmed, rawLine,
                 Flags(FALSE, FALSE, FALSE, FALSE), t.lastIndex)

\* The dual-marker branch had it classified the line as the dialogue branch
\* does.
DualMarkerRuleAsDialogue(f, rawLine, trimmed, t) ==
    IF t.ok
    THEN LineOut("dialogue", trimmed, rawLine,
                 Flags(FALSE, FALSE, TRUE, FALSE), t.lastIndex)
    ELSE DialogueRule(f, rawLine, trimmed,
                      IF InDialogueContext(f)
                      THEN RegexTest("parenthetical", trimmed, t.lastIndex)
                      ELSE NoTest(t.lastIndex))

\* The dual-marker branch had the parenthetical branch not asked for a
\* dialogue context.
DualMarkerRuleNoContext(f, rawLine, trimmed, t) ==
    IF t.ok
    THEN LineOut("character", trimmed, rawLine,
                 Flags(TRUE, FALSE, FALSE, FALSE), t.lastIndex)
    ELSE DialogueRule(f, rawLine, trimmed,
                      RegexTest("parenthetical", trimmed, t.lastIndex))

\* The dual-marker branch: t is the outcome of its whole condition.
DualMarkerRule(f, rawLine, trimmed, t) ==
    IF t.ok
    THEN LineOut("character", trimmed, rawLine,
                 Flags(TRUE, FALSE, FALSE, FALSE), t.lastIndex)
    ELSE DialogueRule(f, rawLine, trimmed,
                      IF InDialogueContext(f)
                      THEN RegexTest("parenthetical", trimmed, t.lastIndex)
                      ELSE NoTest(t.lastIndex))

\* The condition of the dual-marker branch had it not asked for the caret.
DualMarkerTestsNoCaret(f, rawLine, trimmed, t) ==
    DualMarkerRule(f, rawLine, trimmed,
                   IF t.ok
                   THEN TestAll(<< [re |-> "sceneHeading", s |-> trimmed, want |-> FALSE],
                                   [re |-> "transition", s |-> trimmed, want |-> FALSE] >>,
                                t.lastIndex)
                   ELSE NoTest(t.lastIndex))

\* The condition of the dual-marker branch after its character test t.
DualMarkerTests(f, rawLine, trimmed, t) ==
    DualMarkerRule(f, rawLine, trimmed,
                   IF t.ok /\ EndsWith(trimmed, "^")
                   THEN TestAll(<< [re |-> "sceneHeading", s |-> trimmed, want |-> FALSE],
                                   [re |-> "transition", s |-> trimmed, want |-> FALSE] >>,
                                t.lastIndex)
                   ELSE NoTest(t.lastIndex))

\* The character branch had the loop's closing lastLineWasEmpty = false
\* been skipped after a cue.
CharacterRuleKeepsEmpty(f, rawLine, trimmed, t) ==
    IF t.ok
    THEN LineOut("character", trimmed, rawLine,
                 Flags(TRUE, FALSE, FALSE, f.lastLineWasEmpty), t.lastIndex)
    ELSE DualMarkerTests(f, rawLine, trimmed,
                         IF InDialogueContext(f)
                         THEN RegexTest("character", rawLine, t.lastIndex)
                         ELSE NoTest(t.lastIndex))

\* The character branch: t is the outcome of its whole condition.
CharacterRule(f, rawLine, trimmed, t) ==
    IF t.ok
    THEN LineOut("character", trimmed, rawLine,
                 Flags(TRUE, FALSE, FALSE, FALSE), t.lastIndex)
    ELSE DualMarkerTests(f, rawLine, trimmed,
                         IF InDialogueContext(f)
                         THEN RegexTest("character", rawLine, t.lastIndex)
                         ELSE NoTest(t.lastIndex))

\* The transition branch had it left the three dialogue flags as they were.
TransitionRuleKeepsFlags(f, rawLine, trimmed, t) ==
    IF t.ok
    THEN LineOut("transition", trimmed, rawLine,
                 [f EXCEPT !.lastLineWasEmpty = FALSE], t.lastIndex)
    ELSE CharacterRule(f, rawLine, trimmed,
                       IF f.lastLineWasEmpty
                       THEN TestAll(<< [re |-> "character", s |-> rawLine, want |-> TRUE],
                                       [re |-> "sceneHeading", s |-> trimmed, want |-> FALSE],
                                       [re |-> "transition", s |-> trimmed, want |-> FALSE] >>,
                                    t.lastIndex)
                       ELSE NoTest(t.lastIndex))

\* The transition branch had the character branch not asked for
\* lastLineWasEmpty.
TransitionRuleCueAnywhere(f, rawLine, trimmed, t) ==
    IF t.ok
    THEN LineOut("transition", trimmed, rawLine,
                 Flags(FALSE, FALSE, FALSE, FALSE), t.lastIndex)
    ELSE CharacterRule(f, rawLine, trimmed,
                       TestAll(<< [re |-> "character", s |-> rawLine, want |-> TRUE],
                                  [re |-> "sceneHeading", s |-> trimmed, want |-> FALSE],
                                  [re |-> "transition", s |-> trimmed, want |-> FALSE] >>,
                               t.lastIndex))

\* The transition branch.
TransitionRule(f, rawLine, trimmed, t) ==
    IF t.ok
    THEN LineOut("transition", trimmed, rawLine,
                 Flags(FALSE, FALSE, FALSE, FALSE), t.lastIndex)
    ELSE CharacterRule(f, rawLine, trimmed,
                       IF f.lastLineWasEmpty
                       THEN TestAll(<< [re |-> "character", s |-> rawLine, want |-> TRUE],
                                       [re |-> "sceneHeading", s |-> trimmed, want |-> FALSE],
                                       [re |-> "transition", s |-> trimmed, want |-> FALSE] >>,
                                    t.lastIndex)
                       ELSE NoTest(t.lastIndex))

\* The centered and section-heading branches.
CenteredRule(f, rawLine, trimmed, t) ==
    IF t.ok
    THEN LineOut("centered", trimmed, rawLine,
                 Flags(FALSE, FALSE, FALSE, FALSE), t.lastIndex)
    ELSE IF SectionHeadingTest(trimmed)
    THEN LineOut(SectionHeadingType(trimmed), trimmed, rawLine,
                 Flags(FALSE, FALSE, FALSE, FALSE), t.lastIndex)
    ELSE TransitionRule(f, rawLine, trimmed,
                        RegexTest("transition", trimmed, t.lastIndex))

\* The scene-heading branch had it left the dialogue flags as they were.
SceneHeadingRuleKeepsFlags(f, rawLine, trimmed, t) ==
    IF t.ok
    THEN LineOut("scene-heading", trimmed, rawLine,
                 [ f EXCEPT !.lastLineWasEmpty = FALSE ], t.lastIndex)
    ELSE CenteredRule(f, rawLine, trimmed,
                      RegexTest("centered", trimmed, t.lastIndex))

\* The scene-heading branch.
SceneHeadingRule(f, rawLine, trimmed, t) ==
    IF t.ok
    THEN LineOut("scene-heading", trimmed, rawLine,
                 Flags(FALSE, FALSE, FALSE, FALSE), t.lastIndex)
    ELSE CenteredRule(f, rawLine, trimmed,
                      RegexTest("centered", trimmed, t.lastIndex))

\* The blank branch had a zero-length line left lastLineWasCharacter as it
\* was.
BlankRuleKeepsCue(f, li, rawLine) ==
    IF Len(rawLine) > 0 /\ InDialogueContext(f)
    THEN LineOut("dialogue-blank", << >>, rawLine, f, li)
    ELSE LineOut("empty", << >>, rawLine,
                 Flags(f.lastLineWasCharacter, FALSE, FALSE, TRUE), li)

\* The blank branch had a whitespace-only line outside a dialogue block not
\* set lastLineWasEmpty.
BlankRuleZeroLengthOnly(f, li, rawLine) ==
    IF Len(rawLine) > 0 /\ InDialogueContext(f)
    THEN LineOut("dialogue-blank", << >>, rawLine, f, li)
    ELSE LineOut("empty", << >>, rawLine,
                 Flags(FALSE, FALSE, FALSE, Len(rawLine) = 0), li)

\* The blank branch had a continuation line reset the locals as well.
BlankRuleResets(f, li, rawLine) ==
    IF Len(rawLine) > 0 /\ InDialogueContext(f)
    THEN LineOut("dialogue-blank", << >>, rawLine, Flags(FALSE, FALSE, FALSE, TRUE), li)
    ELSE LineOut("empty", << >>, rawLine, Flags(FALSE, FALSE, FALSE, TRUE), li)

\* The branch of a line whose trimmed text is empty.
BlankRule(f, li, rawLine) ==
    IF Len(rawLine) > 0 /\ InDialogueContext(f)
    THEN LineOut("dialogue-blank", << >>, rawLine, f, li)
    ELSE LineOut("empty", << >>, rawLine, Flags(FALSE, FALSE, FALSE, TRUE), li)

ParseTrimmed(f, li, rawLine, trimmed) ==
    IF trimmed = << >>
    THEN BlankRule(f, li, rawLine)
    ELSE SceneHeadingRule(f, rawLine, trimmed,
                          RegexTest("sceneHeading", trimmed, li))

ParseLine(f, li, rawLine) == ParseTrimmed(f, li, rawLine, Trim(rawLine))

\* parseFountain on a whole document: the loop from its first line, the
\* pattern objects as the previous call left them.
RECURSIVE ParseFrom(_, _, _, _)
ParseFrom(lines, f, li, acc) ==
    IF lines = << >> THEN [ result |-> acc, flags |-> f, lastIndex |-> li ]
    ELSE LET o == ParseLine(f, li, Head(lines))
         IN  ParseFrom(Tail(lines), o.flags, o.lastIndex, Append(acc, o.line))

\* parseFountain had it classified the lines from the last to the first.
parseFountainBackward(lines, li) ==
    LET rev(s) == [ n \in 1..Len(s) |-> s[Len(s) + 1 - n] ]
        o == ParseFrom(rev(lines), ClassifierInit, li, << >>)
    IN  [ o EXCEPT !.result = rev(o.result) ]

parseFountain(lines, li) == ParseFrom(lines, ClassifierInit, li, << >>)

(***************************************************************************)
(* buildDecorations of the editor extension with the dual-dialogue widget: *)
(* one iteration of its classification loop.  The patterns carry no g      *)
(* flag, so test() is the plain match.                                     *)
(***************************************************************************)
DecoLine(f, text) ==
    LET trimmed == Trim(text)
        inCtx == InDialogueContext(f)
        Out(type, nf) == [ type |-> type, text |-> trimmed, flags |-> nf ]
    IN  IF trimmed = << >>
        THEN Out("empty", Flags(FALSE, FALSE, FALSE, TRUE))
        ELSE IF Matches("sceneHeading", trimmed)
        THEN Out("scene-heading", Flags(FALSE, FALSE, FALSE, FALSE))
        ELSE IF Matches("centered", trimmed)
        THEN Out("centered", Flags(FALSE, FALSE, FALSE, FALSE))
        ELSE IF Matches("transition", trimmed)
        THEN Out("transition", Flags(FALSE, FALSE, FALSE, FALSE))
        ELSE IF /\ f.lastLineWasEmpty
                /\ Matches("character", text)
                /\ ~Matches("sceneHeading", trimmed)
                /\ ~Matches("transition", trimmed)
        THEN Out("character", Flags(TRUE, FALSE, FALSE, FALSE))
        ELSE IF inCtx /\ Matches("parenthetical", trimmed)
        THEN Out("parenthetical", Flags(FALSE, TRUE, FALSE, FALSE))
        ELSE IF inCtx
        THEN Out("dialogue", Flags(FALSE, FALSE, TRUE, FALSE))
        ELSE Out("action", Flags(FALSE, FALSE, FALSE, FALSE))

\* The loop of the simple extension had it no branch for a whitespace-only
\* line inside a dialogue block.
LiveLineNoBlank(f, text) ==
    LET trimmed == Trim(text)
        inCtx == InDialogueContext(f)
        Out(cls, nf) == [ class |-> cls, flags |-> nf ]
    IN  IF trimmed = << >>
        THEN Out("none", Flags(FALSE, FALSE, FALSE, TRUE))
        ELSE IF Matches("sceneHeading", trimmed)
        THEN Out("fountain-scene-heading", Flags(FALSE, FALSE, FALSE, FALSE))
        ELSE IF Matches("centered", trimmed)
        THEN Out("fountain-centered", Flags(FALSE, FALSE, FALSE, FALSE))
        ELSE IF Matches("transition", trimmed)
        THEN Out("fountain-transition", Flags(FALSE, FALSE, FALSE, FALSE))
        ELSE IF /\ f.lastLineWasEmpty
                /\ Matches("character", text)
                /\ ~Matches("sceneHeading", trimmed)
                /\ ~Matches("transition", trimmed)
        THEN Out("fountain-character", Flags(TRUE, FALSE, FALSE, FALSE))
        ELSE IF inCtx /\ Matches("parenthetical", trimmed)
        THEN Out("fountain-parenthetical", Flags(FALSE, TRUE, FALSE, FALSE))
        ELSE IF inCtx
        THEN Out("fountain-dialogue", Flags(FALSE, FALSE, TRUE, FALSE))
        ELSE Out("fountain-action", Flags(FALSE, FALSE, FALSE, FALSE))

(***************************************************************************)
(* buildDecorations of the simple live-preview extension: one iteration of *)
(* its loop.  class is the line decoration pushed, "none" when the line    *)
(* gets no decoration.                                                     *)
(***************************************************************************)
LiveLine(f, text) ==
    LET trimmed == Trim(text)
        inCtx == InDialogueContext(f)
        Out(cls, nf) == [ class |-> cls, flags |-> nf ]
    IN  IF trimmed = << >>
        THEN IF Len(text) > 0 /\ inCtx
             THEN Out("fountain-dialogue", f)
             ELSE Out("none", Flags(FALSE, FALSE, FALSE, TRUE))
        ELSE IF Matches("sceneHeading", trimmed)
        THEN Out("fountain-scene-heading", Flags(FALSE, FALSE, FALSE, FALSE))
        ELSE IF Matches("centered", trimmed)
        THEN Out("fountain-centered", Flags(FALSE, FALSE, FALSE, FALSE))
        ELSE IF Matches("transition", trimmed)
        THEN Out("fountain-transition", Flags(FALSE, FALSE, FALSE, FALSE))
        ELSE IF /\ f.lastLineWasEmpty
                /\ Matches("character", text)
                /\ ~Matches("sceneHeading", trimmed)
                /\ ~Matches("transition", trimmed)
        THEN Out("fountain-character", Flags(TRUE, FALSE, FALSE, FALSE))
        ELSE IF inCtx /\ Matches("parenthetical", trimmed)
        THEN Out("fountain-parenthetical", Flags(FALSE, TRUE, FALSE, FALSE))
        ELSE IF inCtx
        THEN Out("fountain-dialogue", Flags(FALSE, FALSE, TRUE, FALSE))
        ELSE Out("fountain-action", Flags(FALSE, FALSE, FALSE, FALSE))

(***************************************************************************)
(* Rendering of one line (static preview).                                 *)
(***************************************************************************)
\* String.prototype.replace(/c/g, rep) for a one-character pattern.
RECURSIVE ReplaceAll(_, _, _)
ReplaceAll(s, c, rep) ==
    IF s = << >> THEN << >>
    ELSE (IF Head(s) = c THEN rep ELSE << Head(s) >>) \o ReplaceAll(Tail(s), c, rep)

\* The function had it left the double quote alone.
escapeHtmlNoQuote(text) ==
    ReplaceAll(
        ReplaceAll(
            ReplaceAll(text, "&", << "&","a","m","p",";" >>),
            "<", << "&","l","t",";" >>),
        ">", << "&","g","t",";" >>)

escapeHtml(text) ==
    ReplaceAll(
        ReplaceAll(
            ReplaceAll(
                ReplaceAll(text, "&", << "&","a","m","p",";" >>),
                "<", << "&","l","t",";" >>),
            ">", << "&","g","t",";" >>),
        "\"", << "&","q","u","o","t",";" >>)

\* s without its leading whitespace.
RECURSIVE DropLeadingSpace(_)
DropLeadingSpace(s) ==
    IF s # << >> /\ Head(s) \in Whitespace THEN DropLeadingSpace(Tail(s)) ELSE s

\* s without its trailing whitespace.
RECURSIVE DropTrailingSpace(_)
DropTrailingSpace(s) ==
    IF s # << >> /\ s[Len(s)] \in Whitespace
    THEN DropTrailingSpace(SubSeq(s, 1, Len(s) - 1))
    ELSE s

\* s without its leading run of the character c.
RECURSIVE DropLeading(_, _)
DropLeading(s, c) ==
    IF s # << >> /\ Head(s) = c THEN DropLeading(Tail(s), c) ELSE s

\* The replacement had it removed the marker and left the whitespace.
StripLeadingMarkerOnly(s) ==
    IF s # << >> /\ Head(s) = ">" THEN Tail(s) ELSE s

\* text.replace(/^>\s*/, '')
StripLeadingMarker(s) ==
    IF s # << >> /\ Head(s) = ">" THEN DropLeadingSpace(Tail(s)) ELSE s

\* text.replace(/\s*<$/, '')
StripTrailingMarker(s) ==
    IF EndsWith(s, "<") THEN DropTrailingSpace(SubSeq(s, 1, Len(s) - 1)) ELSE s

\* text.replace(/^#+\s*/, '')
StripHashes(s) ==
    IF s # << >> /\ Head(s) = "#" THEN DropLeadingSpace(DropLeading(s, "#")) ELSE s

\* The replacement had it removed the caret and left the whitespace.
StripCaretOnly(s) ==
    IF EndsWith(s, "^") THEN SubSeq(s, 1, Len(s) - 1) ELSE s

\* text.replace(/\s*\^\s*$/, '')
StripCaret(s) ==
    LET t == DropTrailingSpace(s)
    IN  IF EndsWith(t, "^") THEN DropTrailingSpace(SubSeq(t, 1, Len(t) - 1)) ELSE s

IsSectionHeading(type) ==
    type \in { "section-heading-1", "section-heading-2", "section-heading-3" }

\* The <div> of one line: its class and the text between its tags.
renderLine(line) ==
    IF line.type \in { "empty", "dialogue-blank" }
    THEN [ class |-> "fountain-empty", inner |-> << "&","n","b","s","p",";" >> ]
    ELSE [ class |-> line.type,
           inner |->
             IF line.type = "centered"
             THEN escapeHtml(StripTrailingMarker(StripLeadingMarker(line.text)))
             ELSE IF line.type = "transition"
             THEN escapeHtml(StripLeadingMarker(line.text))
             ELSE IF IsSectionHeading(line.type)
             THEN escapeHtml(StripHashes(line.text))
             ELSE escapeHtml(line.text) ]

(***************************************************************************)
(* The static preview assembler.                                           *)
(***************************************************************************)
\* The test had collectDialogueBlock gone on over every line that is
\* neither empty nor a cue.
IsDialogueLineAny(type) == type \notin { "empty", "character" }

\* The test had collectDialogueBlock stopped at a dialogue-blank line.
IsDialogueLineNoBlank(type) == type \in { "dialogue", "parenthetical" }

IsDialogueLine(type) == type \in { "dialogue", "parenthetical", "dialogue-blank" }

\* The number of lines collectDialogueBlock takes from index j on.
RECURSIVE DialogueRun(_, _)
DialogueRun(lines, j) ==
    IF j <= Len(lines) /\ IsDialogueLine(lines[j].type)
    THEN 1 + DialogueRun(lines, j + 1)
    ELSE 0

collectDialogueBlock(lines, startIdx) ==
    IF startIdx > Len(lines) \/ lines[startIdx].type # "character" THEN << >>
    ELSE SubSeq(lines, startIdx, startIdx + DialogueRun(lines, startIdx + 1))

\* The cursor of fountainToHTML after its "skip empty lines" loop.
RECURSIVE SkipEmpty(_, _)
SkipEmpty(lines, cursor) ==
    IF cursor <= Len(lines) /\ lines[cursor].type = "empty"
    THEN SkipEmpty(lines, cursor + 1)
    ELSE cursor

\* The right column: the character line loses its trailing caret.
RenderRight(dl) ==
    IF dl.type = "character"
    THEN renderLine([dl EXCEPT !.text = StripCaret(dl.text)])
    ELSE renderLine(dl)

\* The value of i after a dual block whose right group starts at cursor.
\* The index had the loop gone on at the last line of the right block.
AfterDualShort(cursor, rightBlock) == cursor + Len(rightBlock) - 1

AfterDual(cursor, rightBlock) == cursor + Len(rightBlock)

\* What fountainToHTML pushes for one dual block.  at and rightAt are the
\* indices of the first line of each group (the values of i and cursor).
DualNode(i, leftBlock, cursor, rightBlock) ==
    [ kind |-> "dual", at |-> i, rightAt |-> cursor,
      left  |-> leftBlock, right |-> rightBlock,
      html  |-> << [ n \in 1..Len(leftBlock)  |-> renderLine(leftBlock[n]) ],
                   [ n \in 1..Len(rightBlock) |-> RenderRight(rightBlock[n]) ] >> ]

\* What fountainToHTML pushes for one normal line.
SingleNode(i, line) ==
    [ kind |-> "single", at |-> i, line |-> line, html |-> renderLine(line) ]

\* The while loop of fountainToHTML from index i on.
RECURSIVE HtmlFrom(_, _, _)
HtmlFrom(lines, i, htmlParts) ==
    IF i > Len(lines) THEN htmlParts
    ELSE LET line == lines[i]
             leftBlock == collectDialogueBlock(lines, i)
             cursor == SkipEmpty(lines, i + Len(leftBlock))
         IN  IF /\ line.type = "character"
                /\ cursor <= Len(lines)
                /\ lines[cursor].type = "character"
                /\ EndsWith(lines[cursor].text, "^")
             THEN LET rightBlock == collectDialogueBlock(lines, cursor)
                  IN  HtmlFrom(lines, AfterDual(cursor, rightBlock),
                               Append(htmlParts,
                                      DualNode(i, leftBlock, cursor, rightBlock)))
             ELSE HtmlFrom(lines, i + 1, Append(htmlParts, SingleNode(i, line)))

fountainToHTML(lines) == HtmlFrom(lines, 1, << >>)

(***************************************************************************)
(* The editor assembler: the retroactive dual-dialogue pass of             *)
(* buildDecorations.  Groups are sequences of indices into decos.          *)
(***************************************************************************)
\* The test had every empty line been taken into the right group.
SoftEmptyAlways(decos, k) == decos[k].type = "empty"

\* The test of the right-group loop for an empty line inside the block.
SoftEmpty(decos, k) ==
    /\ decos[k].type = "empty"
    /\ k + 1 <= Len(decos)
    /\ decos[k + 1].type \in { "dialogue", "parenthetical" }

\* The index after the right group that starts at the marker j.
RECURSIVE RightEnd(_, _)
RightEnd(decos, k) ==
    IF k > Len(decos) THEN k
    ELSE IF decos[k].type \in { "dialogue", "parenthetical" }
    THEN RightEnd(decos, k + 1)
    ELSE IF SoftEmpty(decos, k)
    THEN RightEnd(decos, k + 1)
    ELSE k

\* findLeft after the loop over the empty lines between the groups.
RECURSIVE SkipEmptyBack(_, _)
SkipEmptyBack(decos, findLeft) ==
    IF findLeft >= 1 /\ decos[findLeft].type = "empty"
    THEN SkipEmptyBack(decos, findLeft - 1)
    ELSE findLeft

\* The "gather left group" loop: the indices collected, first index first.
RECURSIVE LeftGroup(_, _, _)
LeftGroup(decos, findLeft, leftGroup) ==
    IF findLeft < 1 THEN leftGroup
    ELSE IF decos[findLeft].type \in { "dialogue", "parenthetical" }
    THEN LeftGroup(decos, findLeft - 1, << findLeft >> \o leftGroup)
    ELSE IF decos[findLeft].type = "character"
    THEN << findLeft >> \o leftGroup
    ELSE IF /\ decos[findLeft].type = "empty"
            /\ findLeft - 1 >= 1
            /\ decos[findLeft - 1].type \in { "dialogue", "parenthetical", "character" }
    THEN LeftGroup(decos, findLeft - 1, << findLeft >> \o leftGroup)
    ELSE leftGroup

Range(a, b) == [ n \in 1..(b - a + 1) |-> a + n - 1 ]

\* Whether the marker at j may be paired (the guard of the pass).
IsMarker(decos, j) ==
    /\ decos[j].type = "character"
    /\ EndsWith(decos[j].text, "^")
    /\ ~decos[j].isDualProcessed

\* The for loop of the pass from index j on.
RECURSIVE DualPassFrom(_, _, _)
DualPassFrom(decos, j, blocksToReplace) ==
    IF j > Len(decos) THEN [ decos |-> decos, blocksToReplace |-> blocksToReplace ]
    ELSE IF ~IsMarker(decos, j) THEN DualPassFrom(decos, j + 1, blocksToReplace)
    ELSE LET rightGroup == Range(j, RightEnd(decos, j + 1) - 1)
             afterGap == SkipEmptyBack(decos, j - 1)
             emptyMiddleGroup == Range(afterGap + 1, j - 1)
             leftGroup == LeftGroup(decos, afterGap, << >>)
             marked == { leftGroup[n] : n \in 1..Len(leftGroup) }
                       \cup { emptyMiddleGroup[n] : n \in 1..Len(emptyMiddleGroup) }
                       \cup { rightGroup[n] : n \in 1..Len(rightGroup) }
         IN  IF leftGroup # << >> /\ decos[leftGroup[1]].type = "character"
             THEN DualPassFrom(
                    [ n \in 1..Len(decos) |->
                        IF n \in marked
                        THEN [decos[n] EXCEPT !.isDualProcessed = TRUE]
                        ELSE decos[n] ],
                    j + 1,
                    Append(blocksToReplace,
                           [ from |-> decos[leftGroup[1]].from,
                             to   |-> decos[rightGroup[Len(rightGroup)]].to,
                             leftBlock  |-> leftGroup,
                             rightBlock |-> rightGroup ]))
             ELSE DualPassFrom(decos, j + 1, blocksToReplace)

DualPass(decos) == DualPassFrom(decos, 1, << >>)

\* The line decorations of the lines no widget replaces.
LineDecorations(decos) ==
    { [ class |-> decos[n].type, from |-> decos[n].from ] :
        n \in { m \in 1..Len(decos) :
                  ~decos[m].isDualProcessed /\ decos[m].type # "empty" } }

(***************************************************************************)
(* The documents explored: lines drawn from two catalogues.                *)
(***************************************************************************)
\* The lines a dialogue block is made of, and one line of action.
DialogueLines ==
    { << >>,                      \* zero-length line
      << " ", " " >>,             \* two spaces
      << "J" >>,                  \* character cue
      << "K", "^" >>,             \* character cue with the dual marker
      << "h", "i" >>,             \* plain text
      << "(", "x", ")" >> }       \* text wrapped in parentheses

\* One line for each structural rule.
StructuralLines ==
    { << ".", "K" >>,                          \* forced scene heading
      << "I", "N", "T", "." >>,                \* scene heading
      << ">", "X", "<" >>,                     \* centered
      << "#", " ", "S" >>,                     \* section heading
      << "G", "O", " ", "T", "O", ":" >>,      \* transition
      << ">", "X" >> }                         \* forced transition

Lines == DialogueLines \cup StructuralLines

DualLines == DialogueLines \cup { << ".", "K" >> }

\* Lines around the scene-heading pattern, and lines that set up each
\* classifier state before them.
HeadingLines ==
    { << >>,                                   \* zero-length line
      << "J" >>,                               \* character cue
      << "h", "i" >>,                          \* plain text
      << "(", "x", ")" >>,                     \* text wrapped in parentheses
      << "." >>,                               \* a period alone
      << ".", "K" >>,                          \* forced scene heading
      << " ", ".", "k" >>,                     \* the same behind a space
      << ".", ".", "K" >>,                     \* two periods
      << "i", "n", "t", "." >>,
      << "E", "x", "t", ".", " ", "x" >>,
      << "E", "S", "T", "." >>,
      << "I", "N", "T", "/", "E", "X", "T", "." >>,
      << "i", "/", "e", "." >>,
      << "I", "/", "X", "." >>,
      << "I", "N", "T" >> }                    \* a prefix without its period

\* Lines whose display differs from their text: markers to strip and
\* characters to escape.
RenderLines ==
    { << >>,                                   \* zero-length line
      << " ", " " >>,                          \* two spaces
      << "J" >>,                               \* character cue
      << "K", " ", "^" >>,                     \* marker behind a space
      << "a", "&", "\"", "<", ">" >>,          \* the four escaped characters
      << "(", "\"", ")" >>,                    \* parenthetical with a quote
      << ">", " ", "A", "&", " ", "<" >>,      \* centered, spaces inside
      << ">", "<" >>,                          \* centered, nothing inside
      << ">", " ", "<", "x" >>,                \* forced transition
      << "G", "O", " ", "T", "O", ":" >>,      \* transition without marker
      << "#", "#", " ", "<", "b" >> }          \* section heading

\* A cue, a marker, a line of text, and one line for each type that is
\* neither a cue nor part of a cue's group.
SpanLines ==
    { << >>,                                   \* zero-length line
      << "J" >>,                               \* character cue
      << "K", "^" >>,                          \* character cue with the marker
      << "h", "i" >>,                          \* dialogue or action
      << ".", "K" >>,                          \* scene heading
      << ">", "X", "<" >>,                     \* centered
      << "#", " ", "S" >>,                     \* section heading
      << "G", "O", " ", "T", "O", ":" >> }     \* transition

\* Lines that match the character pattern, and the lines of a dialogue
\* block.
CueLines ==
    { << >>,                                   \* zero-length line
      << " ", " " >>,                          \* two spaces
      << "J" >>,                               \* character cue
      << "K", "^" >>,                          \* character cue with the marker
      << "J", " ", "(", "x", ")" >>,           \* cue with an extension
      << " ", " ", "(", "x", ")" >>,           \* two spaces and an extension
      << "h", "i" >>,                          \* plain text
      << "(", "x", ")" >> }                    \* text wrapped in parentheses

\* Lines around the transition pattern, and lines that set up each
\* classifier state before them.
TransitionLines ==
    { << >>,                                   \* zero-length line
      << "J" >>,                               \* character cue
      << "h", "i" >>,                          \* plain text
      << "G", "O", " ", "T", "O", ":" >>,      \* capitals ending in TO:
      << "g", "o", " ", "t", "o", ":" >>,      \* the same in small letters
      << "C", "u", "t", " ", "T", "O", ":" >>, \* mixed case
      << "X", "1", " ", "T", "O", ":" >>,      \* a digit before TO:
      << "F", "A", "D", "E", " ", "O", "U", "T", "." >>,
      << "f", "a", "d", "e", " ", "o", "u", "t", "." >>,
      << "F", "A", "D", "E", " ", "O", "U", "T" >>,   \* without its period
      << ">" >>,                               \* the marker alone
      << ">", "x" >>,                          \* forced transition
      << ">", "x", "<" >> }                    \* centered

\* Lines around the section-heading pattern, and lines that set up each
\* classifier state before them.
SectionLines ==
    { << >>,                                   \* zero-length line
      << "J" >>,                               \* character cue
      << "h", "i" >>,                          \* plain text
      << "#", " ", "S" >>,
      << "#", "#", " ", "S" >>,
      << "#", "#", "#", " ", "S" >>,
      << "#", "#", "#", "#", " ", "S" >>,
      << "#", "#", "#", "#", "#", "#", " ", "S" >>,
      << "#", "#", "#", "#", "#", "#", "#", " ", "S" >>,   \* seven
      << " ", "#", " ", "S" >>,                \* behind a space
      << "#", "S" >>,                          \* no whitespace behind
      << "#", "#" >>,                          \* nothing behind
      << "#", " " >> }                         \* whitespace alone behind

LineTypes ==
    { "scene-heading", "transition", "centered", "character", "parenthetical",
      "dialogue", "dialogue-blank", "action", "section-heading-1",
      "section-heading-2", "section-heading-3", "empty" }

(***************************************************************************)
(* State of the classification and assembly pipeline.                      *)
(***************************************************************************)
VARIABLES
    rawLines,         \* the lines of the document read so far
    pc,               \* "classify", "rendered" or "rerendered"
    lastIndex,        \* lastIndex of each pattern object of the preview module
    result,           \* parseFountain: the records pushed so far
    pfFlags,          \* parseFountain: its four lastLineWas... locals
    pfTrace,          \* their values after each line read (history)
    htmlParts,        \* fountainToHTML: the nodes pushed
    decos,            \* buildDecorations (widget extension): the LineDeco records
    decoFlags,        \* its four lastLineWas... locals
    blocksToReplace,  \* its dual-dialogue blocks
    lineDecos,        \* its line decorations
    builder,          \* buildDecorations (simple extension): decorations pushed
    liveFlags,        \* its four lastLineWas... locals
    liveTrace         \* their values after each line read (history)

coreVars ==
    << rawLines, pc, lastIndex, result, pfFlags, pfTrace, htmlParts, decos,
       decoFlags, blocksToReplace, lineDecos, builder, liveFlags, liveTrace >>

VARIABLES
    opened,           \* FountainPreviewView: onOpen has run
    leaves,           \* the files of the workspace's markdown leaves, in order
    disk,             \* the vault: the content of each file
    trackedFile,      \* FountainPreviewView.trackedFile
    reads,            \* renderFile calls suspended at "await vault.read"
    innerHTML,        \* contentEl_inner.innerHTML
    started,          \* the number of render invocations started (history)
    shownBy           \* the invocation that assigned innerHTML last (history)

viewVars ==
    << opened, leaves, disk, trackedFile, reads, innerHTML, started, shownBy >>

VARIABLES
    phase,            \* FountainPrintModal: "closed" or "open"
    bodyHtml,         \* FountainPrintModal.bodyHtml
    customCss,        \* FountainPrintModal.customCss
    paperSize,        \* FountainPrintModal.paperSize
    margins,          \* FountainPrintModal.margins
    showPageNumbers,  \* FountainPrintModal.showPageNumbers
    previewInner,     \* the "paper" div of the modal: innerHTML and style
    previewStyle,     \* the stylesheet string appended to the modal's <style>
    overlays,         \* the #fountain-print-overlay elements in the document
    openedWith        \* what the open modal was constructed with (history)

printVars ==
    << phase, bodyHtml, customCss, paperSize, margins, showPageNumbers,
       previewInner, previewStyle, overlays, openedWith >>

VARIABLES
    closed,            \* FountainPreviewView: onClose has run
    notices,           \* the messages shown with new Notice(...), in order
    scrollSyncCleanup, \* FountainPreviewView.scrollSyncCleanup
    listeners,         \* the scroll handlers attached to editor scrollers
    attached,          \* the number of handlers attachScrollSync created (history)
    shownFile          \* the file the invocation shownBy rendered (history)

shellVars ==
    << closed, notices, scrollSyncCleanup, listeners, attached, shownFile >>

scrollVars == << scrollSyncCleanup, listeners, attached >>

VARIABLES
    leafType,          \* the view type of each leaf of the right sidebar,
                       \* "none" for a leaf that does not exist
    revealed,          \* the leaf workspace.revealLeaf was last called with
    activations,       \* activatePreview calls suspended at "await setViewState"
    activated          \* the number of activatePreview calls started (history)

workspaceVars == << leafType, revealed, activations, activated >>

vars == << coreVars, viewVars, printVars, shellVars, workspaceVars >>

\* The offset of the first character of the next line in the editor document.
NextFrom == IF decos = << >> THEN 0 ELSE decos[Len(decos)].to + 1

\* result.push(...)
PushLine(res, line) == Append(res, line)

\* decos.push({ lineNum, from, to, type, text })
PushDeco(ds, type, text, rawLine) ==
    Append(ds, [ lineNum |-> Len(ds) + 1,
                 from |-> NextFrom, to |-> NextFrom + Len(rawLine),
                 type |-> type, text |-> text,
                 isDualProcessed |-> FALSE ])

\* builder.push(Decoration.line({ class }).range(line.from))
PushDecoration(b, class, from) ==
    IF class = "none" THEN b ELSE Append(b, [ class |-> class, from |-> from ])

CoreInit ==
    /\ rawLines = << >>
    /\ pc = "classify"
    /\ lastIndex = [ re \in RegexNames |-> 0 ]
    /\ result = << >>
    /\ pfFlags = ClassifierInit
    /\ pfTrace = << >>
    /\ htmlParts = << >>
    /\ decos = << >>
    /\ decoFlags = ClassifierInit
    /\ blocksToReplace = << >>
    /\ lineDecos = {}
    /\ builder = << >>
    /\ liveFlags = ClassifierInit
    /\ liveTrace = << >>

\* The files of the vault and the texts they can hold, as split on "\n".
Files == { "a.fountain", "b.fountain" }

PlainText == << << "J" >>, << "h", "i" >> >>

DualText == << << "J" >>, << "K", "^" >> >>

Contents == { PlainText, DualText }

\* trackedFile: TFile | null = null
NoFile == "null"

\* The message renderFile shows when no file is tracked.
NoFileMessage == << [ kind |-> "message" ] >>

ViewInit ==
    /\ opened = FALSE
    /\ leaves = << >>
    /\ disk = [ f \in Files |-> PlainText ]
    /\ trackedFile = NoFile
    /\ reads = {}
    /\ innerHTML = << >>
    /\ started = 0
    /\ shownBy = 0

\* The values of plugin.settings.customCss.
SettingsCss == { "undefined", "", ".fountain-action{}" }

PaperSizes == { "letter", "a4" }

MarginNames == { "normal", "narrow", "tight" }

\* No element: the modal's content before onOpen and after onClose.
NoElement == [ innerHTML |-> << >>, width |-> "", padding |-> "" ]

PrintInit ==
    /\ phase = "closed"
    /\ bodyHtml = << >>
    /\ customCss = ""
    /\ paperSize = "letter"
    /\ margins = "normal"
    /\ showPageNumbers = FALSE
    /\ previewInner = NoElement
    /\ previewStyle = ""
    /\ overlays = {}
    /\ openedWith = [ bodyHtml |-> << >>, customCss |-> "" ]

\* scrollSyncCleanup: (() => void) | null = null
NoCleanup == [ editor |-> "null", handler |-> 0 ]

ShellInit ==
    /\ closed = FALSE
    /\ notices = << >>
    /\ scrollSyncCleanup = NoCleanup
    /\ listeners = {}
    /\ attached = 0
    /\ shownFile = NoFile

\* The leaves the right sidebar can hold, and no leaf.
SideLeaves == 1..MaxSideLeaves

NoLeaf == 0

FOUNTAIN_PREVIEW_VIEW == "fountain-preview-view"

WorkspaceInit ==
    /\ leafType = [ l \in SideLeaves |-> "none" ]
    /\ revealed = NoLeaf
    /\ activations = {}
    /\ activated = 0

Init == CoreInit /\ ViewInit /\ PrintInit /\ ShellInit /\ WorkspaceInit

(***************************************************************************)
(* The next line of the document is l: each classifier runs one iteration  *)
(* of its loop on it.                                                      *)
(***************************************************************************)
ReadLine(l) ==
    /\ pc = "classify"
    /\ rawLines' = Append(rawLines, l)
    /\ LET o == ParseLine(pfFlags, lastIndex, l)
       IN  /\ result' = PushLine(result, o.line)
           /\ pfFlags' = o.flags
           /\ pfTrace' = Append(pfTrace, o.flags)
           /\ lastIndex' = o.lastIndex
    /\ LET o == DecoLine(decoFlags, l)
       IN  /\ decos' = PushDeco(decos, o.type, o.text, l)
           /\ decoFlags' = o.flags
    /\ LET o == LiveLine(liveFlags, l)
       IN  /\ builder' = PushDecoration(builder, o.class, NextFrom)
           /\ liveFlags' = o.flags
           /\ liveTrace' = Append(liveTrace, o.flags)
    /\ UNCHANGED << pc, htmlParts, blocksToReplace, lineDecos >>
    /\ UNCHANGED << viewVars, printVars, shellVars, workspaceVars >>

(***************************************************************************)
(* The document ends: parseFountain returns and fountainToHTML runs on its *)
(* result; buildDecorations leaves its first loop and runs the dual pass.  *)
(***************************************************************************)
EndOfDocument ==
    /\ pc = "classify"
    /\ rawLines # << >>
    /\ pc' = "rendered"
    /\ htmlParts' = fountainToHTML(result)
    /\ LET o == DualPass(decos)
       IN  /\ decos' = o.decos
           /\ blocksToReplace' = o.blocksToReplace
           /\ lineDecos' = LineDecorations(o.decos)
    /\ UNCHANGED << rawLines, lastIndex, result, pfFlags, pfTrace, decoFlags,
                    builder, liveFlags, liveTrace >>
    /\ UNCHANGED << viewVars, printVars, shellVars, workspaceVars >>

(***************************************************************************)
(* parseFountain and fountainToHTML are called again on the same text.     *)
(***************************************************************************)
RenderAgain ==
    /\ pc = "rendered"
    /\ pc' = "rerendered"
    /\ LET o == parseFountain(rawLines, lastIndex)
       IN  /\ result' = o.result
           /\ pfFlags' = o.flags
           /\ lastIndex' = o.lastIndex
           /\ htmlParts' = fountainToHTML(o.result)
    /\ UNCHANGED << rawLines, pfTrace, decos, decoFlags, blocksToReplace,
                    lineDecos, builder, liveFlags, liveTrace >>
    /\ UNCHANGED << viewVars, printVars, shellVars, workspaceVars >>

\* Documents of up to MaxLines lines over the full catalogue.
Next ==
    \/ \E l \in Lines : Len(rawLines) < MaxLines /\ ReadLine(l)
    \/ EndOfDocument
    \/ RenderAgain

Spec == Init /\ [][Next]_vars

\* Documents of up to MaxDualLines lines over the dual-dialogue catalogue.
NextDual ==
    \/ \E l \in DualLines : Len(rawLines) < MaxDualLines /\ ReadLine(l)
    \/ EndOfDocument

SpecDual == Init /\ [][NextDual]_vars

\* Documents of up to MaxHeadingLines lines over the scene-heading catalogue.
NextHeading ==
    \/ \E l \in HeadingLines : Len(rawLines) < MaxHeadingLines /\ ReadLine(l)
    \/ EndOfDocument

SpecHeading == Init /\ [][NextHeading]_vars

\* Documents of up to MaxSpanLines lines over the block-span catalogue.
NextSpan ==
    \/ \E l \in SpanLines : Len(rawLines) < MaxSpanLines /\ ReadLine(l)
    \/ EndOfDocument

SpecSpan == Init /\ [][NextSpan]_vars

\* Documents of up to MaxCueLines lines over the character-cue catalogue.
NextCue ==
    \/ \E l \in CueLines : Len(rawLines) < MaxCueLines /\ ReadLine(l)
    \/ EndOfDocument

SpecCue == Init /\ [][NextCue]_vars

\* Documents of up to MaxTransitionLines lines over the transition catalogue.
NextTransition ==
    \/ \E l \in TransitionLines :
           Len(rawLines) < MaxTransitionLines /\ ReadLine(l)
    \/ EndOfDocument

SpecTransition == Init /\ [][NextTransition]_vars

\* Documents of up to MaxSectionLines lines over the section-heading
\* catalogue.
NextSection ==
    \/ \E l \in SectionLines : Len(rawLines) < MaxSectionLines /\ ReadLine(l)
    \/ EndOfDocument

SpecSection == Init /\ [][NextSection]_vars

\* Documents of up to MaxRenderLines lines over the rendering catalogue.
NextRender ==
    \/ \E l \in RenderLines : Len(rawLines) < MaxRenderLines /\ ReadLine(l)
    \/ EndOfDocument

SpecRender == Init /\ [][NextRender]_vars

(***************************************************************************)
(* FountainPreviewView.  A render invocation is a call of renderFile or a  *)
(* call of renderContent from the editor-change handler; invocations are   *)
(* numbered in the order they start.  renderFile suspends at its await:    *)
(* the vault reads the file at some later step, and the rest of renderFile *)
(* runs at a later step still.                                             *)
(***************************************************************************)
viewCoreVars ==
    << rawLines, pc, result, pfFlags, pfTrace, htmlParts, decos, decoFlags,
       blocksToReplace, lineDecos, builder, liveFlags, liveTrace >>

LeafFiles == { leaves[n] : n \in 1..Len(leaves) }

\* findActiveFile: the file of the first markdown leaf, if there is one.
findActiveFile(tf) == IF leaves = << >> THEN tf ELSE leaves[1]

\* renderContent: the assignment to innerHTML and the pattern state it leaves.
renderContent(content, li) ==
    [ innerHTML |-> fountainToHTML(parseFountain(content, li).result),
      lastIndex |-> parseFountain(content, li).lastIndex ]

\* renderContent called by invocation id.
RenderContent(id, file, content) ==
    /\ innerHTML' = renderContent(content, lastIndex).innerHTML
    /\ lastIndex' = renderContent(content, lastIndex).lastIndex
    /\ shownBy' = id
    /\ shownFile' = file

\* renderFile up to its await, with trackedFile = tf.
RenderFile(tf) ==
    /\ started < MaxRenders
    /\ started' = started + 1
    /\ IF tf = NoFile
       THEN /\ innerHTML' = NoFileMessage
            /\ shownBy' = started + 1
            /\ shownFile' = NoFile
            /\ reads' = reads
       ELSE /\ reads' = reads \cup { [ id |-> started + 1, file |-> tf,
                                       read |-> FALSE, content |-> << >> ] }
            /\ UNCHANGED << innerHTML, shownBy, shownFile >>
    /\ UNCHANGED lastIndex

\* attachScrollSync had it left the previous handler on its scroller.
attachScrollSyncNoDetach(cleanup, ls, f, sc, id) ==
    IF sc
    THEN [ listeners |-> ls \cup { [ editor |-> f, handler |-> id ] },
           scrollSyncCleanup |-> [ editor |-> f, handler |-> id ] ]
    ELSE [ listeners |-> ls, scrollSyncCleanup |-> NoCleanup ]

\* attachScrollSync(view): the view shows file f, sc says whether its
\* container holds a .cm-scroller element, id names the handler created.
attachScrollSync(cleanup, ls, f, sc, id) ==
    LET kept == IF cleanup = NoCleanup THEN ls ELSE ls \ { cleanup }
    IN  IF sc
        THEN [ listeners |-> kept \cup { [ editor |-> f, handler |-> id ] },
               scrollSyncCleanup |-> [ editor |-> f, handler |-> id ] ]
        ELSE [ listeners |-> kept, scrollSyncCleanup |-> NoCleanup ]

AttachScrollSync(f, sc) ==
    LET o == attachScrollSync(scrollSyncCleanup, listeners, f, sc, attached + 1)
    IN  /\ listeners' = o.listeners
        /\ scrollSyncCleanup' = o.scrollSyncCleanup
        /\ attached' = IF sc THEN attached + 1 ELSE attached

\* The call of attachScrollSync in findActiveFile.
FindActiveFile ==
    IF leaves = << >> THEN UNCHANGED scrollVars
    ELSE \E sc \in BOOLEAN : AttachScrollSync(leaves[1], sc)

\* The user opens file f in a markdown leaf.
OpenMarkdown(f) ==
    /\ f \notin LeafFiles
    /\ leaves' = Append(leaves, f)
    /\ UNCHANGED << opened, disk, trackedFile, reads, innerHTML, started, shownBy >>
    /\ UNCHANGED << coreVars, printVars, shellVars, workspaceVars >>

\* onOpen: registers the handlers, then findActiveFile and renderFile.
OnOpen ==
    /\ ~opened
    /\ ~closed
    /\ opened' = TRUE
    /\ trackedFile' = findActiveFile(trackedFile)
    /\ FindActiveFile
    /\ RenderFile(findActiveFile(trackedFile))
    /\ UNCHANGED << leaves, disk, closed, notices >>
    /\ UNCHANGED << viewCoreVars, printVars, workspaceVars >>

\* The "active-leaf-change" handler, the leaf showing file f.
ActiveLeafChange(f) ==
    /\ opened
    /\ f \in LeafFiles
    /\ trackedFile' = f
    /\ RenderFile(f)
    /\ \E sc \in BOOLEAN : AttachScrollSync(f, sc)
    /\ UNCHANGED << opened, leaves, disk, closed, notices >>
    /\ UNCHANGED << viewCoreVars, printVars, workspaceVars >>

\* File f is written with content c; the "modify" handler of an open view.
VaultModify(f, c) ==
    /\ disk' = [ disk EXCEPT ![f] = c ]
    /\ IF opened /\ trackedFile = f
       THEN RenderFile(f)
       ELSE UNCHANGED << reads, innerHTML, started, shownBy, shownFile, lastIndex >>
    /\ UNCHANGED << opened, leaves, trackedFile, closed, notices, scrollVars >>
    /\ UNCHANGED << viewCoreVars, printVars, workspaceVars >>

\* The "editor-change" handler: the editor of file f now holds c.
EditorChange(f, c) ==
    /\ opened
    /\ f \in LeafFiles
    /\ trackedFile = f
    /\ started < MaxRenders
    /\ started' = started + 1
    /\ RenderContent(started + 1, f, c)
    /\ UNCHANGED << opened, leaves, disk, trackedFile, reads >>
    /\ UNCHANGED << closed, notices, scrollVars >>
    /\ UNCHANGED << viewCoreVars, printVars, workspaceVars >>

\* forceRefresh: the Refresh button.
ForceRefresh ==
    /\ opened
    /\ trackedFile' = findActiveFile(trackedFile)
    /\ FindActiveFile
    /\ RenderFile(findActiveFile(trackedFile))
    /\ UNCHANGED << opened, leaves, disk, closed, notices >>
    /\ UNCHANGED << viewCoreVars, printVars, workspaceVars >>

\* onClose: the view is closed and its registered handlers are dropped.
OnClose ==
    /\ opened
    /\ opened' = FALSE
    /\ closed' = TRUE
    /\ listeners' = (IF scrollSyncCleanup = NoCleanup THEN listeners
                     ELSE listeners \ { scrollSyncCleanup })
    /\ scrollSyncCleanup' = NoCleanup
    /\ UNCHANGED << leaves, disk, trackedFile, reads, innerHTML, started,
                    shownBy, shownFile, notices, attached >>
    /\ UNCHANGED << coreVars, printVars, workspaceVars >>

\* The vault reads the file of the suspended invocation r.
VaultRead(r) ==
    /\ r \in reads
    /\ ~r.read
    /\ reads' = (reads \ { r })
                    \cup { [ r EXCEPT !.read = TRUE, !.content = disk[r.file] ] }
    /\ UNCHANGED << opened, leaves, disk, trackedFile, innerHTML, started, shownBy >>
    /\ UNCHANGED << coreVars, printVars, shellVars, workspaceVars >>

\* renderFile after its await: renderContent(content).
ReadResolve(r) ==
    /\ r \in reads
    /\ r.read
    /\ reads' = reads \ { r }
    /\ RenderContent(r.id, r.file, r.content)
    /\ UNCHANGED << opened, leaves, disk, trackedFile, started >>
    /\ UNCHANGED << closed, notices, scrollVars >>
    /\ UNCHANGED << viewCoreVars, printVars, workspaceVars >>

NextView ==
    \/ \E f \in Files : OpenMarkdown(f)
    \/ OnOpen
    \/ \E f \in Files : ActiveLeafChange(f)
    \/ \E f \in Files, c \in Contents : VaultModify(f, c)
    \/ \E f \in Files, c \in Contents : EditorChange(f, c)
    \/ ForceRefresh
    \/ \E r \in reads : VaultRead(r)
    \/ \E r \in reads : ReadResolve(r)

SpecView == Init /\ [][NextView]_vars

(***************************************************************************)
(* FountainPrintModal, opened by exportPdf of the preview view.            *)
(***************************************************************************)
\* getMarginValue
getMarginValue(m) ==
    IF m = "narrow" THEN "0.75in" ELSE IF m = "tight" THEN "0.5in" ELSE "1in"

\* updatePreview: the style of the paper div and the modal's stylesheet.
updatePreview(inner, paper, m, css) ==
    [ previewInner |-> [ inner EXCEPT !.width = IF paper = "a4" THEN "210mm" ELSE "8.5in",
                                      !.padding = getMarginValue(m) ],
      previewStyle |-> css ]

\* The overlay doPrint appended had it been left without content.
doPrintOverlayEmpty(body, css, paper, m, pageNumbers, ow) ==
    [ innerHTML |-> << >>,
      size |-> IF paper = "a4" THEN "A4" ELSE "letter",
      margin |-> getMarginValue(m),
      pageNumberCss |-> pageNumbers,
      customCss |-> css,
      openedWith |-> ow ]

\* doPrint: the overlay appended to the document and its print stylesheet.
doPrintOverlay(body, css, paper, m, pageNumbers, ow) ==
    [ innerHTML |-> body,
      size |-> IF paper = "a4" THEN "A4" ELSE "letter",
      margin |-> getMarginValue(m),
      pageNumberCss |-> pageNumbers,
      customCss |-> css,
      openedWith |-> ow ]

\* The message exportPdf shows when no file is tracked.
NoFileNotice == "No file loaded in preview."

\* new FountainPrintModal(app, css || '', innerHTML).open()
OpenModal(css) ==
    /\ phase' = "open"
    /\ bodyHtml' = innerHTML
    /\ customCss' = (IF css \in { "undefined", "" } THEN "" ELSE css)
    /\ paperSize' = "letter"
    /\ margins' = "normal"
    /\ showPageNumbers' = FALSE
    /\ previewInner' =
           updatePreview([ NoElement EXCEPT !.innerHTML = bodyHtml' ],
                         paperSize', margins', customCss').previewInner
    /\ previewStyle' = customCss'
    /\ openedWith' = [ bodyHtml |-> innerHTML, customCss |-> customCss' ]
    /\ UNCHANGED overlays

\* exportPdf had it opened the modal after showing the notice.
ExportPdfNoReturn(css) ==
    /\ opened
    /\ phase = "closed"
    /\ IF trackedFile = NoFile
       THEN /\ Len(notices) < MaxNotices
            /\ notices' = Append(notices, NoFileNotice)
       ELSE UNCHANGED notices
    /\ OpenModal(css)
    /\ UNCHANGED << closed, scrollVars, shownFile >>
    /\ UNCHANGED << coreVars, viewVars, workspaceVars >>

\* exportPdf: the notice when no file is tracked, else the modal is
\* constructed on the preview's innerHTML and opened.
ExportPdf(css) ==
    /\ opened
    /\ phase = "closed"
    /\ IF trackedFile = NoFile
       THEN /\ Len(notices) < MaxNotices
            /\ notices' = Append(notices, NoFileNotice)
            /\ UNCHANGED printVars
       ELSE /\ OpenModal(css)
            /\ UNCHANGED notices
    /\ UNCHANGED << closed, scrollVars, shownFile >>
    /\ UNCHANGED << coreVars, viewVars, workspaceVars >>

\* The "change" handler of the paper size select.
PaperChange(v) ==
    /\ phase = "open"
    /\ paperSize' = v
    /\ previewInner' = updatePreview(previewInner, v, margins, customCss).previewInner
    /\ previewStyle' = updatePreview(previewInner, v, margins, customCss).previewStyle
    /\ UNCHANGED << phase, bodyHtml, customCss, margins, showPageNumbers,
                    overlays, openedWith >>
    /\ UNCHANGED << coreVars, viewVars, shellVars, workspaceVars >>

\* The "change" handler of the margins select.
MarginChange(v) ==
    /\ phase = "open"
    /\ margins' = v
    /\ previewInner' = updatePreview(previewInner, paperSize, v, customCss).previewInner
    /\ previewStyle' = updatePreview(previewInner, paperSize, v, customCss).previewStyle
    /\ UNCHANGED << phase, bodyHtml, customCss, paperSize, showPageNumbers,
                    overlays, openedWith >>
    /\ UNCHANGED << coreVars, viewVars, shellVars, workspaceVars >>

\* The "change" handler of the page-number checkbox.
PageNumberChange(b) ==
    /\ phase = "open"
    /\ showPageNumbers' = b
    /\ UNCHANGED << phase, bodyHtml, customCss, paperSize, margins,
                    previewInner, previewStyle, overlays, openedWith >>
    /\ UNCHANGED << coreVars, viewVars, shellVars, workspaceVars >>

\* doPrint: the click handler of the print button.
DoPrint ==
    /\ phase = "open"
    /\ Cardinality(overlays) < MaxOverlays
    /\ overlays' = overlays \cup
           { doPrintOverlay(bodyHtml, customCss, paperSize, margins,
                            showPageNumbers, openedWith) }
    /\ UNCHANGED << phase, bodyHtml, customCss, paperSize, margins,
                    showPageNumbers, previewInner, previewStyle, openedWith >>
    /\ UNCHANGED << coreVars, viewVars, shellVars, workspaceVars >>

\* The timer of doPrint removes the overlay o.
RemoveOverlay(o) ==
    /\ o \in overlays
    /\ overlays' = overlays \ { o }
    /\ UNCHANGED << phase, bodyHtml, customCss, paperSize, margins,
                    showPageNumbers, previewInner, previewStyle, openedWith >>
    /\ UNCHANGED << coreVars, viewVars, shellVars, workspaceVars >>

\* onClose: contentEl.empty(); the modal object is not used again.
CloseModal ==
    /\ phase = "open"
    /\ phase' = "closed"
    /\ bodyHtml' = << >>
    /\ customCss' = ""
    /\ paperSize' = "letter"
    /\ margins' = "normal"
    /\ showPageNumbers' = FALSE
    /\ previewInner' = NoElement
    /\ previewStyle' = ""
    /\ openedWith' = [ bodyHtml |-> << >>, customCss |-> "" ]
    /\ UNCHANGED overlays
    /\ UNCHANGED << coreVars, viewVars, shellVars, workspaceVars >>

\* The preview view with one file, its editor, and the print modal.
NextPrint ==
    \/ \E f \in Files : OpenMarkdown(f)
    \/ OnOpen
    \/ \E f \in Files, c \in Contents : EditorChange(f, c)
    \/ \E css \in SettingsCss : ExportPdf(css)
    \/ \E v \in PaperSizes : PaperChange(v)
    \/ \E v \in MarginNames : MarginChange(v)
    \/ \E b \in BOOLEAN : PageNumberChange(b)
    \/ DoPrint
    \/ \E o \in overlays : RemoveOverlay(o)
    \/ CloseModal

SpecPrint == Init /\ [][NextPrint]_vars

(***************************************************************************)
(* FountainPlugin.activatePreview, called by the command and by the ribbon *)
(* icon.  Calls follow one another: none starts while another is suspended *)
(* at its await.                                                           *)
(***************************************************************************)
\* workspace.getLeavesOfType(FOUNTAIN_PREVIEW_VIEW)
PreviewLeaves == { l \in SideLeaves : leafType[l] = FOUNTAIN_PREVIEW_VIEW }

\* existing[0]
FirstOf(ls) == CHOOSE l \in ls : \A m \in ls : l <= m

\* The leaves workspace.getRightLeaf(false) can return: one that exists and
\* shows nothing, or one it creates; NoLeaf stands for null.
RightLeaves ==
    { l \in SideLeaves : leafType[l] \in { "none", "empty" } } \cup { NoLeaf }

\* activatePreview up to its await, had it not looked for an existing leaf.
ActivatePreviewAlways(leaf) ==
    /\ activations = {}
    /\ activated < MaxActivations
    /\ activated' = activated + 1
    /\ leaf \in RightLeaves
    /\ IF leaf = NoLeaf
       THEN UNCHANGED << leafType, revealed, activations >>
       ELSE /\ leafType' = [ leafType EXCEPT ![leaf] = "empty" ]
            /\ activations' = { leaf }
            /\ UNCHANGED revealed
    /\ UNCHANGED << coreVars, viewVars, printVars, shellVars >>

\* activatePreview up to its await; leaf is what getRightLeaf returns if it
\* is called.
ActivatePreview(leaf) ==
    /\ activations = {}
    /\ activated < MaxActivations
    /\ activated' = activated + 1
    /\ IF PreviewLeaves # {}
       THEN /\ revealed' = FirstOf(PreviewLeaves)
            /\ UNCHANGED << leafType, activations >>
       ELSE /\ leaf \in RightLeaves
            /\ IF leaf = NoLeaf
               THEN UNCHANGED << leafType, revealed, activations >>
               ELSE /\ leafType' = [ leafType EXCEPT ![leaf] = "empty" ]
                    /\ activations' = { leaf }
                    /\ UNCHANGED revealed
    /\ UNCHANGED << coreVars, viewVars, printVars, shellVars >>

\* setViewState resolves: the leaf shows the preview view and is revealed.
SetViewState(leaf) ==
    /\ leaf \in activations
    /\ activations' = activations \ { leaf }
    /\ leafType' = [ leafType EXCEPT ![leaf] = FOUNTAIN_PREVIEW_VIEW ]
    /\ revealed' = leaf
    /\ UNCHANGED activated
    /\ UNCHANGED << coreVars, viewVars, printVars, shellVars >>

\* The user opens another pane in the right sidebar.
OpenSidePane(l) ==
    /\ leafType[l] = "none"
    /\ leafType' = [ leafType EXCEPT ![l] = "outline" ]
    /\ UNCHANGED << revealed, activations, activated >>
    /\ UNCHANGED << coreVars, viewVars, printVars, shellVars >>

\* The user closes a leaf of the right sidebar.
DetachLeaf(l) ==
    /\ leafType[l] # "none"
    /\ l \notin activations
    /\ leafType' = [ leafType EXCEPT ![l] = "none" ]
    /\ revealed' = (IF revealed = l THEN NoLeaf ELSE revealed)
    /\ UNCHANGED << activations, activated >>
    /\ UNCHANGED << coreVars, viewVars, printVars, shellVars >>

NextActivate ==
    \/ \E leaf \in SideLeaves \cup { NoLeaf } : ActivatePreview(leaf)
    \/ \E leaf \in activations : SetViewState(leaf)
    \/ \E l \in SideLeaves : OpenSidePane(l)
    \/ \E l \in SideLeaves : DetachLeaf(l)

SpecActivate == Init /\ [][NextActivate]_vars

\* The life of the preview view: opened, following the active leaf,
\* refreshed, exported and closed.
NextLifecycle ==
    \/ \E f \in Files : OpenMarkdown(f)
    \/ OnOpen
    \/ \E f \in Files : ActiveLeafChange(f)
    \/ ForceRefresh
    \/ \E r \in reads : VaultRead(r)
    \/ \E r \in reads : ReadResolve(r)
    \/ \E css \in SettingsCss : ExportPdf(css)
    \/ CloseModal
    \/ OnClose

SpecLifecycle == Init /\ [][NextLifecycle]_vars

(***************************************************************************)
(* Vocabulary of the properties.                                           *)
(***************************************************************************)
Rendered == pc # "classify"

\* A Character record whose trimmed text ends with the caret.
IsCue(rec) == rec.type = "character"

IsDualMarker(rec) == rec.type = "character" /\ EndsWith(rec.text, "^")

\* The first and last line index a node of htmlParts stands for.
NodeFirst(node) == node.at

NodeLast(node) ==
    IF node.kind = "single" THEN node.at
    ELSE node.rightAt + Len(node.right) - 1

DualNodes == { n \in 1..Len(htmlParts) : htmlParts[n].kind = "dual" }

SingleNodes == { n \in 1..Len(htmlParts) : htmlParts[n].kind = "single" }

\* seq[a..g] is a cue followed by all its contiguous lines of the types in run.
IsGroup(seq, a, g, run) ==
    /\ a <= g /\ g <= Len(seq)
    /\ seq[a].type = "character"
    /\ \A k \in (a + 1)..g : seq[k].type \in run
    /\ g = Len(seq) \/ seq[g + 1].type \notin run

\* A cue group a..g, a gap of Empty lines, and a marker group m..e.
IsPairPattern(seq, a, g, m, e, run) ==
    /\ IsGroup(seq, a, g, run)
    /\ g < m
    /\ \A k \in (g + 1)..(m - 1) : seq[k].type = "empty"
    /\ IsGroup(seq, m, e, run)
    /\ EndsWith(seq[m].text, "^")

PreviewRun == { "dialogue", "parenthetical", "dialogue-blank" }

(***************************************************************************)
(* C1  Partition law of the static preview assembler: the nodes pushed by  *)
(* fountainToHTML, a single node standing for its line and a dual block    *)
(* for the lines from its left group's first to its right group's last,    *)
(* cover the line indices 1..n exactly once and in increasing order; each  *)
(* node carries the very records of the lines it stands for, a dual block  *)
(* sitting at the index of its left group's first line.                    *)
(***************************************************************************)
PartitionLaw ==
    Rendered =>
        /\ htmlParts # << >>
        /\ NodeFirst(htmlParts[1]) = 1
        /\ NodeLast(htmlParts[Len(htmlParts)]) = Len(result)
        /\ \A n \in 1..(Len(htmlParts) - 1) :
               NodeFirst(htmlParts[n + 1]) = NodeLast(htmlParts[n]) + 1
        /\ \A n \in SingleNodes : htmlParts[n].line = result[htmlParts[n].at]
        /\ \A n \in DualNodes :
               LET node == htmlParts[n]
               IN  /\ node.left # << >> /\ node.right # << >>
                   /\ node.at + Len(node.left) <= node.rightAt
                   /\ node.rightAt + Len(node.right) - 1 <= Len(result)
                   /\ node.left = SubSeq(result, node.at,
                                         node.at + Len(node.left) - 1)
                   /\ node.right = SubSeq(result, node.rightAt,
                                          node.rightAt + Len(node.right) - 1)

\* A dual block with a gap between its groups, and a single node after it.
PartitionWitness ==
    /\ pc = "rendered"
    /\ \E n \in DualNodes :
           /\ htmlParts[n].rightAt > htmlParts[n].at + Len(htmlParts[n].left)
           /\ Len(htmlParts[n].right) >= 2
           /\ n < Len(htmlParts)

(***************************************************************************)
(* C2  In every dual block of either assembler the left group starts with  *)
(* a Character line whose text does not end with the caret and the right   *)
(* group starts with a Character line whose text ends with it.             *)
(***************************************************************************)
DualGroupHeads ==
    Rendered =>
        /\ \A n \in DualNodes :
               /\ IsCue(htmlParts[n].left[1])
               /\ ~IsDualMarker(htmlParts[n].left[1])
               /\ IsDualMarker(htmlParts[n].right[1])
        /\ \A n \in 1..Len(blocksToReplace) :
               /\ IsCue(decos[blocksToReplace[n].leftBlock[1]])
               /\ ~IsDualMarker(decos[blocksToReplace[n].leftBlock[1]])
               /\ IsDualMarker(decos[blocksToReplace[n].rightBlock[1]])

(***************************************************************************)
(* C3  Pairing.  As stated: every cue group followed, after zero or more   *)
(* Empty lines, by a marker group yields exactly one dual block made of    *)
(* these two groups, and no line from the first to the last of them is     *)
(* also emitted on its own.                                                *)
(***************************************************************************)
\* The dual blocks of htmlParts made of the groups a..g and m..e.
PreviewBlocksOf(a, g, m, e) ==
    { n \in DualNodes :
        /\ htmlParts[n].at = a
        /\ htmlParts[n].left = SubSeq(result, a, g)
        /\ htmlParts[n].rightAt = m
        /\ htmlParts[n].right = SubSeq(result, m, e) }

PreviewPaired(a, g, m, e) ==
    /\ Cardinality(PreviewBlocksOf(a, g, m, e)) = 1
    /\ \A n \in SingleNodes : htmlParts[n].at \notin a..e

\* The blocks of blocksToReplace made of the groups a..g and m..e.
EditorBlocksOf(a, g, m, e) ==
    { n \in 1..Len(blocksToReplace) :
        /\ blocksToReplace[n].leftBlock = Range(a, g)
        /\ blocksToReplace[n].rightBlock = Range(m, e)
        /\ blocksToReplace[n].from = decos[a].from
        /\ blocksToReplace[n].to = decos[e].to }

EditorPaired(a, g, m, e) ==
    /\ Cardinality(EditorBlocksOf(a, g, m, e)) = 1
    /\ \A k \in a..e :
           /\ decos[k].isDualProcessed
           /\ \A d \in lineDecos : d.from # decos[k].from

\* Whether line a is the right-hand cue of a dual block of htmlParts.
IsRightCue(a) == \E n \in DualNodes : htmlParts[n].rightAt = a

PairingAsStated ==
    Rendered =>
        \A a \in 1..Len(result) : \A g \in a..Len(result) :
        \A m \in (g + 1)..Len(result) : \A e \in m..Len(result) :
            /\ IsPairPattern(result, a, g, m, e, PreviewRun)
                   => PreviewPaired(a, g, m, e)
            /\ IsPairPattern(decos, a, g, m, e, PreviewRun)
                   => EditorPaired(a, g, m, e)

(***************************************************************************)
(* C3 as amended: in the static preview the pairing holds for every such   *)
(* pattern whose first cue is not itself the right-hand cue of an earlier  *)
(* dual block; in the editor it holds for every such pattern.              *)
(***************************************************************************)
Pairing ==
    Rendered =>
        \A a \in 1..Len(result) : \A g \in a..Len(result) :
        \A m \in (g + 1)..Len(result) : \A e \in m..Len(result) :
            /\ IsPairPattern(result, a, g, m, e, PreviewRun) /\ ~IsRightCue(a)
                   => PreviewPaired(a, g, m, e)
            /\ IsPairPattern(decos, a, g, m, e, PreviewRun)
                   => EditorPaired(a, g, m, e)

\* Both assemblers have paired a cue group holding a second line with a
\* marker group across an Empty line.
PairingWitness ==
    /\ pc = "rendered"
    /\ \E a \in 1..Len(result) : \E g \in (a + 1)..Len(result) :
       \E m \in (g + 2)..Len(result) : \E e \in m..Len(result) :
           /\ IsPairPattern(result, a, g, m, e, PreviewRun)
           /\ PreviewPaired(a, g, m, e)
           /\ IsPairPattern(decos, a, g, m, e, PreviewRun)
           /\ EditorPaired(a, g, m, e)

(***************************************************************************)
(* C4  Sequence length: at every point of the classification loops there   *)
(* is exactly one record per line read, record k describing line k.        *)
(***************************************************************************)
OneRecordPerLine ==
    /\ Len(result) = Len(rawLines)
    /\ \A k \in 1..Len(rawLines) :
           /\ result[k].rawText = rawLines[k]
           /\ result[k].text = Trim(rawLines[k])
           /\ result[k].type \in LineTypes
    /\ Len(decos) = Len(rawLines)
    /\ \A k \in 1..Len(rawLines) :
           /\ decos[k].lineNum = k
           /\ decos[k].text = Trim(rawLines[k])
           /\ decos[k].to - decos[k].from = Len(rawLines[k])
           /\ decos[k].from = IF k = 1 THEN 0 ELSE decos[k - 1].to + 1

\* A three-line document holding a whitespace-only line has been classified.
OneRecordWitness ==
    /\ Len(rawLines) = 3
    /\ \E k \in 1..3 : Len(rawLines[k]) > 0 /\ Trim(rawLines[k]) = << >>
    /\ pc = "rendered"

(***************************************************************************)
(* Vocabulary of the classification properties.                            *)
(***************************************************************************)
\* The locals of each classifier before line k is read.
PfBefore(k) == IF k = 1 THEN ClassifierInit ELSE pfTrace[k - 1]

LiveBefore(k) == IF k = 1 THEN ClassifierInit ELSE liveTrace[k - 1]

\* The class of the decoration the simple extension pushed for line k.
LiveClass(k) ==
    LET ds == { n \in 1..Len(builder) : builder[n].from = decos[k].from }
    IN  IF ds = {} THEN "none" ELSE builder[CHOOSE n \in ds : TRUE].class

\* t matches one of the four structural patterns.
IsStructural(t) ==
    \/ Matches("sceneHeading", t)
    \/ Matches("centered", t)
    \/ SectionHeadingTest(t)
    \/ Matches("transition", t)

\* t is wrapped in parentheses.
IsWrapped(t) == Len(t) >= 2 /\ t[1] = "(" /\ t[Len(t)] = ")"

\* raw has a non-zero length and holds whitespace only.
IsWhitespaceOnly(raw) == Len(raw) > 0 /\ Trim(raw) = << >>

\* raw matches the character pattern and its trimmed text ends with the caret.
IsMarkerText(raw) == Matches("character", raw) /\ EndsWith(Trim(raw), "^")

ZeroIndex == [ re \in RegexNames |-> 0 ]

RemoveAt(seq, k) == SubSeq(seq, 1, k - 1) \o SubSeq(seq, k + 1, Len(seq))

(***************************************************************************)
(* C6  Determinism: parseFountain followed by fountainToHTML, run a second *)
(* time on the same text with the pattern objects as the first run left    *)
(* them, yields the same records and the same nodes.                       *)
(***************************************************************************)
Determinism ==
    [][ pc = "rendered" => result' = result /\ htmlParts' = htmlParts ]_vars

\* A second run has ended on a document that holds a scene heading and a
\* dual block.
DeterminismWitness ==
    /\ pc = "rerendered"
    /\ DualNodes # {}
    /\ \E k \in 1..Len(result) : result[k].type = "scene-heading"

(***************************************************************************)
(* C7  Character then dialogue.  As stated: a line that is first or        *)
(* follows an Empty line, matches the character pattern and none of the    *)
(* four structural patterns is classified Character; the next line, when   *)
(* non-blank, not structural and not wrapped in parentheses, is classified *)
(* Dialogue.                                                               *)
(***************************************************************************)
\* The line after k is non-blank, not structural and not wrapped in parentheses.
NextIsPlain(k) ==
    /\ k < Len(rawLines)
    /\ Trim(rawLines[k + 1]) # << >>
    /\ ~IsStructural(Trim(rawLines[k + 1]))
    /\ ~IsWrapped(Trim(rawLines[k + 1]))

CharacterThenDialogueAsStated ==
    \A k \in 1..Len(rawLines) :
        Matches("character", rawLines[k]) /\ ~IsStructural(Trim(rawLines[k])) =>
            /\ (k = 1 \/ result[k - 1].type = "empty") =>
                   /\ result[k].type = "character"
                   /\ NextIsPlain(k) => result[k + 1].type = "dialogue"
            /\ (k = 1 \/ LiveClass(k - 1) = "none") =>
                   /\ LiveClass(k) = "fountain-character"
                   /\ NextIsPlain(k) => LiveClass(k + 1) = "fountain-dialogue"

(***************************************************************************)
(* C7 as amended: the line itself is non-blank; and in parseFountain a     *)
(* next line that matches the character pattern and ends with the caret    *)
(* is classified Character, not Dialogue.                                  *)
(***************************************************************************)
CharacterThenDialogue ==
    \A k \in 1..Len(rawLines) :
        /\ Trim(rawLines[k]) # << >>
        /\ Matches("character", rawLines[k])
        /\ ~IsStructural(Trim(rawLines[k]))
        =>  /\ (k = 1 \/ result[k - 1].type = "empty") =>
                   /\ result[k].type = "character"
                   /\ NextIsPlain(k) =>
                          result[k + 1].type =
                              IF IsMarkerText(rawLines[k + 1])
                              THEN "character" ELSE "dialogue"
            /\ (k = 1 \/ LiveClass(k - 1) = "none") =>
                   /\ LiveClass(k) = "fountain-character"
                   /\ NextIsPlain(k) => LiveClass(k + 1) = "fountain-dialogue"

\* An Empty line, a cue and a line of dialogue, in both classifiers.
CharacterThenDialogueWitness ==
    /\ Len(rawLines) = 3
    /\ result[1].type = "empty" /\ LiveClass(1) = "none"
    /\ result[2].type = "character" /\ LiveClass(2) = "fountain-character"
    /\ NextIsPlain(2)
    /\ result[3].type = "dialogue" /\ LiveClass(3) = "fountain-dialogue"

(***************************************************************************)
(* C8  Parenthetical and Dialogue are assigned only inside a dialogue      *)
(* context: a line read while none of the three flags is set is never      *)
(* classified Parenthetical or Dialogue, and is classified Action when it  *)
(* is non-blank, matches no structural pattern and is not a Character      *)
(* line, even when wrapped in parentheses.                                 *)
(***************************************************************************)
DialogueOnlyInContext ==
    \A k \in 1..Len(rawLines) :
        /\ ~InDialogueContext(PfBefore(k)) =>
               /\ result[k].type \notin { "parenthetical", "dialogue" }
               /\ /\ Trim(rawLines[k]) # << >>
                  /\ ~IsStructural(Trim(rawLines[k]))
                  /\ result[k].type # "character"
                  => result[k].type = "action"
        /\ ~InDialogueContext(LiveBefore(k)) =>
               /\ LiveClass(k) \notin { "fountain-parenthetical", "fountain-dialogue" }
               /\ /\ Trim(rawLines[k]) # << >>
                  /\ ~IsStructural(Trim(rawLines[k]))
                  /\ LiveClass(k) # "fountain-character"
                  => LiveClass(k) = "fountain-action"

\* A line wrapped in parentheses, read outside a dialogue context, is Action.
DialogueOnlyInContextWitness ==
    \E k \in 1..Len(rawLines) :
        /\ Matches("parenthetical", Trim(rawLines[k]))
        /\ ~InDialogueContext(PfBefore(k))
        /\ ~InDialogueContext(LiveBefore(k))
        /\ result[k].type = "action"
        /\ LiveClass(k) = "fountain-action"

(***************************************************************************)
(* C9  Dialogue continuation: a whitespace-only line of non-zero length    *)
(* read inside a dialogue context is classified dialogue-blank and leaves  *)
(* the four flags as they were; the lines after it are classified as in    *)
(* the document without it; and a group of a dual block does not end at    *)
(* such a line.                                                            *)
(***************************************************************************)
\* The groups of the dual blocks: the index of the cue and the records.
DualGroups ==
    { << htmlParts[n].at, htmlParts[n].left >> : n \in DualNodes }
    \cup { << htmlParts[n].rightAt, htmlParts[n].right >> : n \in DualNodes }

DialogueContinuation ==
    \A k \in 1..Len(rawLines) :
        IsWhitespaceOnly(rawLines[k]) /\ InDialogueContext(PfBefore(k)) =>
            /\ result[k].type = "dialogue-blank"
            /\ pfTrace[k] = PfBefore(k)
            /\ \A j \in (k + 1)..Len(rawLines) :
                   result[j].type =
                       parseFountain(RemoveAt(rawLines, k), ZeroIndex).result[j - 1].type
            /\ Rendered =>
                   \A grp \in DualGroups :
                       /\ grp[1] < k
                       /\ \A j \in (grp[1] + 1)..k : result[j].type \in PreviewRun
                       => k <= grp[1] + Len(grp[2]) - 1

\* A dual block whose left group holds a dialogue-blank line followed by
\* nothing, the marker coming right after it.
DialogueContinuationWitness ==
    /\ pc = "rendered"
    /\ \E n \in DualNodes :
           /\ Len(htmlParts[n].left) = 2
           /\ htmlParts[n].left[2].type = "dialogue-blank"

(***************************************************************************)
(* C10  Totality: every line read gets one type of the closed set; a       *)
(* non-blank line that no rule matches is classified Action and leaves     *)
(* the three dialogue-context flags cleared; and the assembler turns the   *)
(* records of any document into nodes of the two kinds.                    *)
(***************************************************************************)
\* No rule but the final else applies to line k of parseFountain.
NoRuleMatches(k) ==
    /\ Trim(rawLines[k]) # << >>
    /\ ~IsStructural(Trim(rawLines[k]))
    /\ ~(PfBefore(k).lastLineWasEmpty /\ Matches("character", rawLines[k]))
    /\ ~InDialogueContext(PfBefore(k))

Totality ==
    /\ \A k \in 1..Len(rawLines) :
           /\ result[k].type \in LineTypes
           /\ NoRuleMatches(k) =>
                  /\ result[k].type = "action"
                  /\ ~InDialogueContext(pfTrace[k])
    /\ Rendered =>
           /\ htmlParts # << >>
           /\ \A n \in 1..Len(htmlParts) : htmlParts[n].kind \in { "single", "dual" }

\* A line that follows a scene heading and matches no rule has been rendered.
TotalityWitness ==
    /\ pc = "rendered"
    /\ \E k \in 2..Len(rawLines) :
           /\ NoRuleMatches(k)
           /\ result[k - 1].type = "scene-heading"
           /\ result[k].type = "action"

(***************************************************************************)
(* C5  Last write wins by invocation start: once no renderFile is          *)
(* suspended at its await, the preview shows what the render invocation    *)
(* that started last produced.                                             *)
(***************************************************************************)
LastWriteWins == reads = {} /\ started > 0 => shownBy = started

(***************************************************************************)
(* Vocabulary of the assembler properties.                                 *)
(***************************************************************************)
\* The line types the editor assembler gathers behind a cue.
EditorRun == { "dialogue", "parenthetical" }

\* The last line of the group the cue at m heads.
GroupEnd(seq, m, run) == CHOOSE e \in m..Len(seq) : IsGroup(seq, m, e, run)

\* No cue-headed group stands before line m, separated from it by Empty
\* lines at most.
NoLeftGroup(seq, m, run) ==
    ~ \E a \in 1..(m - 1) : \E g \in a..(m - 1) :
          /\ IsGroup(seq, a, g, run)
          /\ \A k \in (g + 1)..(m - 1) : seq[k].type = "empty"

(***************************************************************************)
(* C11  Malformed marker fallback: a marker line before which no cue       *)
(* group stands produces no dual block; it is emitted as a single          *)
(* Character node whose displayed text keeps the caret, the lines of its   *)
(* group are emitted as single nodes, and the editor marks none of them    *)
(* consumed.                                                               *)
(***************************************************************************)
MalformedMarkerFallback ==
    Rendered =>
        /\ \A m \in 1..Len(result) :
               IsDualMarker(result[m]) /\ NoLeftGroup(result, m, PreviewRun) =>
                   \A k \in m..GroupEnd(result, m, PreviewRun) :
                       \E n \in SingleNodes :
                           /\ htmlParts[n].at = k
                           /\ k = m => EndsWith(htmlParts[n].html.inner, "^")
        /\ \A m \in 1..Len(decos) :
               IsDualMarker(decos[m]) /\ NoLeftGroup(decos, m, EditorRun) =>
                   /\ \A n \in 1..Len(blocksToReplace) :
                          blocksToReplace[n].rightBlock[1] # m
                   /\ \A k \in m..GroupEnd(decos, m, EditorRun) :
                          ~decos[k].isDualProcessed

(***************************************************************************)
(* C12  Scene heading rule.  As stated: a non-blank line whose trimmed     *)
(* text begins, in any letter case, with INT., EXT., EST., INT/EXT., I/E.  *)
(* or I/X., or with a period that no second period follows, is classified  *)
(* scene-heading in every classifier state and leaves the three dialogue   *)
(* flags cleared; a line that begins with two periods is not a scene       *)
(* heading and is classified by the later rules.                           *)
(***************************************************************************)
BeginsWithPrefix(t) ==
    \E p \in SceneHeadingPrefixes : StartsWith(t, p, { "i" })

BeginsWithTwoPeriods(t) == Len(t) >= 2 /\ t[1] = "." /\ t[2] = "."

\* Line k is classified scene-heading and the dialogue flags are cleared.
IsHeadingAt(k) ==
    /\ result[k].type = "scene-heading"
    /\ ~InDialogueContext(pfTrace[k])

\* Line k is classified by the dialogue and fallback rules.
FallsThroughAt(k) ==
    result[k].type =
        IF InDialogueContext(PfBefore(k)) THEN "dialogue" ELSE "action"

SceneHeadingAsStated ==
    \A k \in 1..Len(rawLines) :
        /\ \/ BeginsWithPrefix(Trim(rawLines[k]))
           \/ /\ Trim(rawLines[k]) # << >>
              /\ Trim(rawLines[k])[1] = "."
              /\ ~BeginsWithTwoPeriods(Trim(rawLines[k]))
           => IsHeadingAt(k)
        /\ BeginsWithTwoPeriods(Trim(rawLines[k])) => FallsThroughAt(k)

(***************************************************************************)
(* C12 as amended: the period must be followed by a character that is not  *)
(* a period; a period alone is classified by the later rules.              *)
(***************************************************************************)
SceneHeading ==
    \A k \in 1..Len(rawLines) :
        /\ \/ BeginsWithPrefix(Trim(rawLines[k]))
           \/ /\ Len(Trim(rawLines[k])) >= 2
              /\ Trim(rawLines[k])[1] = "."
              /\ Trim(rawLines[k])[2] # "."
           => IsHeadingAt(k)
        /\ \/ BeginsWithTwoPeriods(Trim(rawLines[k]))
           \/ Trim(rawLines[k]) = << "." >>
           => FallsThroughAt(k)

\* A cue, a line of two periods classified dialogue, and a lower-case
\* prefix classified scene-heading inside the dialogue context.
SceneHeadingWitness ==
    /\ Len(rawLines) = 3
    /\ result[1].type = "character"
    /\ BeginsWithTwoPeriods(rawLines[2]) /\ result[2].type = "dialogue"
    /\ BeginsWithPrefix(rawLines[3])
    /\ ~ \E p \in SceneHeadingPrefixes : StartsWith(rawLines[3], p, {})
    /\ IsHeadingAt(3)

(***************************************************************************)
(* Vocabulary of the rendering properties.                                 *)
(***************************************************************************)
\* Every line fountainToHTML has rendered: its record, its <div>, and
\* whether it stands in the right column of a dual block.
RenderedLines ==
    { [ line |-> htmlParts[n].line, div |-> htmlParts[n].html, right |-> FALSE ] :
        n \in SingleNodes }
    \cup UNION { { [ line |-> htmlParts[n].left[q], div |-> htmlParts[n].html[1][q],
                     right |-> FALSE ] : q \in 1..Len(htmlParts[n].left) } :
                 n \in DualNodes }
    \cup UNION { { [ line |-> htmlParts[n].right[q], div |-> htmlParts[n].html[2][q],
                     right |-> TRUE ] : q \in 1..Len(htmlParts[n].right) } :
                 n \in DualNodes }

\* text between its first and last character, trimmed.
Inside(text) == Trim(SubSeq(text, 2, Len(text) - 1))

\* text after its first character, trimmed.
AfterFirst(text) == Trim(SubSeq(text, 2, Len(text)))

\* text after its leading run of "#", trimmed.
AfterHashes(text) == Trim(SubSeq(text, LeadingHashes(text) + 1, Len(text)))

(***************************************************************************)
(* C13  Marker stripping: a centered line is displayed without its leading *)
(* ">" and trailing "<" and the whitespace next to them, a transition line *)
(* without its leading ">", a section heading without its leading "#"; the *)
(* class of the <div> is the line's type.                                  *)
(***************************************************************************)
MarkerStripping ==
    \A r \in RenderedLines :
        /\ r.line.type = "centered" =>
               /\ r.div.inner = escapeHtml(Inside(r.line.text))
               /\ r.div.class = "centered"
        /\ r.line.type = "transition" =>
               /\ r.div.inner =
                      escapeHtml(IF r.line.text[1] = ">"
                                 THEN AfterFirst(r.line.text) ELSE r.line.text)
               /\ r.div.class = "transition"
        /\ IsSectionHeading(r.line.type) =>
               /\ r.div.inner = escapeHtml(AfterHashes(r.line.text))
               /\ r.div.class = r.line.type

\* A centered line, a forced transition and a section heading have been
\* rendered, each shorter on display than in the source.
MarkerStrippingWitness ==
    /\ pc = "rendered"
    /\ \E r \in RenderedLines :
           r.line.type = "centered" /\ Len(Inside(r.line.text)) > 0
    /\ \E r \in RenderedLines :
           /\ r.line.type = "transition"
           /\ Len(AfterFirst(r.line.text)) < Len(r.line.text) - 1
    /\ \E r \in RenderedLines :
           r.line.type = "section-heading-2"

\* text before its last character, trimmed.
BeforeLast(text) == Trim(SubSeq(text, 1, Len(text) - 1))

(***************************************************************************)
(* C14  Caret stripping: in a dual block of fountainToHTML the Character   *)
(* line of the right column is displayed without its trailing caret and    *)
(* the whitespace before it, its record keeps the caret, and every other   *)
(* line is displayed as renderLine displays its record.                    *)
(***************************************************************************)
CaretStripping ==
    /\ \A r \in RenderedLines :
           IF r.right /\ r.line.type = "character"
           THEN /\ EndsWith(r.line.text, "^")
                /\ r.div.inner = escapeHtml(BeforeLast(r.line.text))
                /\ r.div.class = "character"
           ELSE r.div = renderLine(r.line)
    /\ \A n \in DualNodes :
           /\ htmlParts[n].right[1] = result[htmlParts[n].rightAt]
           /\ EndsWith(result[htmlParts[n].rightAt].text, "^")

\* A dual block whose marker holds a space before the caret and whose left
\* cue is itself a marker, displayed with its caret.
CaretStrippingWitness ==
    /\ pc = "rendered"
    /\ \E n \in DualNodes :
           /\ Len(htmlParts[n].right[1].text) > Len(htmlParts[n].html[2][1].inner) + 1
           /\ EndsWith(htmlParts[n].html[1][1].inner, "^")

\* The character references of the output and the characters they stand for.
Entities ==
    { [ ref |-> << "&","a","m","p",";" >>,     char |-> "&" ],
      [ ref |-> << "&","l","t",";" >>,         char |-> "<" ],
      [ ref |-> << "&","g","t",";" >>,         char |-> ">" ],
      [ ref |-> << "&","q","u","o","t",";" >>, char |-> "\"" ],
      [ ref |-> << "&","n","b","s","p",";" >>, char |-> " " ] }

\* Markup holds none of the four characters outside a character reference.
WellEscaped(markup) ==
    \A n \in 1..Len(markup) :
        /\ markup[n] \notin { "<", ">", "\"" }
        /\ markup[n] = "&" =>
               \E e \in Entities :
                   StartsWith(SubSeq(markup, n, Len(markup)), e.ref, {})

\* The text a browser shows for markup.
RECURSIVE Unescape(_)
Unescape(markup) ==
    IF markup = << >> THEN << >>
    ELSE IF \E e \in Entities : StartsWith(markup, e.ref, {})
    THEN LET e == CHOOSE e \in Entities : StartsWith(markup, e.ref, {})
         IN  << e.char >> \o Unescape(SubSeq(markup, Len(e.ref) + 1, Len(markup)))
    ELSE << Head(markup) >> \o Unescape(Tail(markup))

\* The record's text is displayed with a marker stripped.
IsStripped(r) ==
    \/ r.line.type \in { "centered", "transition" }
    \/ IsSectionHeading(r.line.type)
    \/ r.right /\ r.line.type = "character"

(***************************************************************************)
(* C15  HTML escaping: the text of every <div> fountainToHTML emits holds  *)
(* no "<", ">", "&" or double quote of the source outside a character      *)
(* reference, marker and caret stripping included; where nothing is        *)
(* stripped a browser shows the record's text.                             *)
(***************************************************************************)
HtmlEscaping ==
    \A r \in RenderedLines :
        /\ WellEscaped(r.div.inner)
        /\ ~IsStripped(r) /\ r.line.type \notin { "empty", "dialogue-blank" } =>
               Unescape(r.div.inner) = r.line.text

\* Lines holding the escaped characters have been rendered: one displayed
\* whole, one with its markers stripped.
HtmlEscapingWitness ==
    /\ pc = "rendered"
    /\ \E r \in RenderedLines :
           /\ ~IsStripped(r)
           /\ { "<", ">", "&", "\"" } \subseteq
                  { r.line.text[n] : n \in 1..Len(r.line.text) }
    /\ \E r \in RenderedLines :
           /\ IsStripped(r)
           /\ \E n \in 1..Len(r.div.inner) : r.div.inner[n] = "&"

(***************************************************************************)
(* C16  Export options affect layout only: whatever paper size, margins    *)
(* and page-number option are chosen, the open modal holds the HTML and    *)
(* the stylesheet string it was constructed with, its paper shows that     *)
(* HTML, and every print overlay holds the HTML its modal was opened with. *)
(***************************************************************************)
ExportLayoutOnly ==
    /\ phase = "open" =>
           /\ bodyHtml = openedWith.bodyHtml
           /\ customCss = openedWith.customCss
           /\ previewInner.innerHTML = openedWith.bodyHtml
           /\ previewStyle = openedWith.customCss
    /\ \A o \in overlays :
           /\ o.innerHTML = o.openedWith.bodyHtml
           /\ o.customCss = o.openedWith.customCss

\* An overlay printed on A4 with tight margins and page numbers, while the
\* preview already shows something else than the modal was opened with.
ExportLayoutOnlyWitness ==
    /\ phase = "open"
    /\ bodyHtml # << >>
    /\ innerHTML # bodyHtml
    /\ \E o \in overlays :
           o.size = "A4" /\ o.margin = "0.5in" /\ o.pageNumberCss


(***************************************************************************)
(* C17  No line belongs to two dual blocks of the editor assembler: the    *)
(* replace ranges [from, to) of blocksToReplace are pairwise disjoint, and *)
(* no line of one block's groups is a line of another block's groups.      *)
(***************************************************************************)
\* The lines of the two groups of the block p of blocksToReplace.
BlockLines(p) ==
    { blocksToReplace[p].leftBlock[n] :
        n \in 1..Len(blocksToReplace[p].leftBlock) }
    \cup { blocksToReplace[p].rightBlock[n] :
        n \in 1..Len(blocksToReplace[p].rightBlock) }

RangesDisjoint(p, q) ==
    \/ blocksToReplace[p].to <= blocksToReplace[q].from
    \/ blocksToReplace[q].to <= blocksToReplace[p].from

NoLineInTwoBlocks ==
    Rendered =>
        \A p, q \in 1..Len(blocksToReplace) :
            p # q => /\ RangesDisjoint(p, q)
                     /\ BlockLines(p) \cap BlockLines(q) = { }


(***************************************************************************)
(* C18  The forward scan of fountainToHTML pairs as the backward scan      *)
(* does: on every classified sequence the dual blocks of fountainToHTML    *)
(* are the blocks the dual-dialogue pass of buildDecorations computes on   *)
(* the same sequence, marker by marker, with the same left and right       *)
(* groups.                                                                 *)
(***************************************************************************)
\* The records of parseFountain as the array the dual-dialogue pass walks.
ResultAsDecos ==
    [ k \in 1..Len(result) |->
        [ lineNum |-> k, from |-> decos[k].from, to |-> decos[k].to,
          type |-> result[k].type, text |-> result[k].text,
          isDualProcessed |-> FALSE ] ]

\* The groups the backward scan pairs on the sequence of parseFountain.
BackwardPairs ==
    LET blocks == DualPass(ResultAsDecos).blocksToReplace
    IN  { [ left |-> blocks[n].leftBlock, right |-> blocks[n].rightBlock ] :
            n \in 1..Len(blocks) }

\* The groups the forward scan paired, as line indices.
ForwardPairs ==
    { [ left  |-> Range(htmlParts[n].at,
                        htmlParts[n].at + Len(htmlParts[n].left) - 1),
        right |-> Range(htmlParts[n].rightAt,
                        htmlParts[n].rightAt + Len(htmlParts[n].right) - 1) ] :
        n \in DualNodes }

ForwardScanIsBackwardScan ==
    Rendered => ForwardPairs = BackwardPairs


(***************************************************************************)
(* C19  The classifiers differ on two rules only: on a document in which   *)
(* no line takes the section-heading rule and no line read inside a        *)
(* dialogue block matches the character pattern with a trailing caret,     *)
(* buildDecorations of the simple extension and parseFountain give every   *)
(* line the same type and hold the same four flags after every line.  A    *)
(* dialogue-blank record stands against the class fountain-dialogue on a   *)
(* whitespace-only line, an empty record against no decoration.            *)
(***************************************************************************)
\* The class of the line decoration that stands for a record type.
ClassOf(type) ==
    CASE type = "empty"          -> "none"
      [] type = "dialogue-blank" -> "fountain-dialogue"
      [] type = "scene-heading"  -> "fountain-scene-heading"
      [] type = "transition"     -> "fountain-transition"
      [] type = "centered"       -> "fountain-centered"
      [] type = "character"      -> "fountain-character"
      [] type = "parenthetical"  -> "fountain-parenthetical"
      [] type = "dialogue"       -> "fountain-dialogue"
      [] type = "action"         -> "fountain-action"
      [] OTHER                   -> "fountain-section-heading"

\* Line k is one the two rules apply to.
OnDocumentedRule(k) ==
    \/ SectionHeadingTest(Trim(rawLines[k]))
    \/ InDialogueContext(PfBefore(k)) /\ IsMarkerText(rawLines[k])

SameTypeAt(k) ==
    /\ LiveClass(k) = ClassOf(result[k].type)
    /\ result[k].type = "dialogue-blank" <=>
           LiveClass(k) = "fountain-dialogue" /\ IsWhitespaceOnly(rawLines[k])

ClassifiersAgree ==
    (\A k \in 1..Len(rawLines) : ~OnDocumentedRule(k)) =>
        \A k \in 1..Len(rawLines) :
            /\ SameTypeAt(k)
            /\ pfTrace[k] = liveTrace[k]

\* A document clear of the two rules with a whitespace-only line inside a
\* dialogue block and a structural line has been classified to its end.
ClassifiersAgreeWitness ==
    /\ pc = "rendered"
    /\ Len(rawLines) = 3
    /\ \A k \in 1..3 : ~OnDocumentedRule(k)
    /\ result[1].type = "character"
    /\ result[2].type = "dialogue-blank"
    /\ IsStructural(Trim(rawLines[3]))


(***************************************************************************)
(* C20  Right group across an empty line.  As stated: the right-group loop *)
(* of the dual-dialogue pass goes on over an empty line exactly when the   *)
(* line after it is dialogue or parenthetical, the empty line then being   *)
(* part of the right group, and stops at an empty line otherwise; and some *)
(* document is classified into a sequence in which a right group holds     *)
(* such an empty line.                                                     *)
(***************************************************************************)
\* The first loop of buildDecorations on a whole document.
RECURSIVE DecosFrom(_, _, _)
DecosFrom(lines, f, acc) ==
    IF lines = << >> THEN acc
    ELSE LET o == DecoLine(f, Head(lines))
             from == IF acc = << >> THEN 0 ELSE acc[Len(acc)].to + 1
         IN  DecosFrom(Tail(lines), o.flags,
                       Append(acc, [ lineNum |-> Len(acc) + 1,
                                     from |-> from, to |-> from + Len(Head(lines)),
                                     type |-> o.type, text |-> o.text,
                                     isDualProcessed |-> FALSE ]))

\* Some right group of blocks holds a line of type empty in ds.
HoldsEmpty(ds, blocks) ==
    \E p \in 1..Len(blocks) :
        \E n \in 1..Len(blocks[p].rightBlock) :
            ds[blocks[p].rightBlock[n]].type = "empty"

\* The documents of at most MaxDualLines lines of DualLines.
DualDocuments == UNION { [ 1..n -> DualLines ] : n \in 1..MaxDualLines }

SomeRightGroupHoldsEmpty ==
    \E doc \in DualDocuments :
        LET o == DualPass(DecosFrom(doc, ClassifierInit, << >>))
        IN  HoldsEmpty(o.decos, o.blocksToReplace)

\* Line k of decos is an empty line the right-group loop goes on over.
IsTolerated(k) ==
    /\ decos[k].type = "empty"
    /\ k + 1 <= Len(decos)
    /\ decos[k + 1].type \in EditorRun

\* rightBlock is the marker and the lines after it up to the first line that
\* is neither dialogue, nor parenthetical, nor a tolerated empty line.
RightGroupRule ==
    Rendered =>
        \A p \in 1..Len(blocksToReplace) :
            LET rb == blocksToReplace[p].rightBlock
                m == rb[1]
                e == rb[Len(rb)]
            IN  /\ rb = Range(m, e)
                /\ \A k \in (m + 1)..e :
                       decos[k].type \in EditorRun \/ IsTolerated(k)
                /\ e + 1 <= Len(decos) =>
                       /\ decos[e + 1].type \notin EditorRun
                       /\ ~IsTolerated(e + 1)

StructuralTypes ==
    { "scene-heading", "transition", "centered", "action",
      "section-heading-1", "section-heading-2", "section-heading-3" }

\* The lines from the first of the left group of block p of blocksToReplace
\* to the last of its right group.
BlockSpan(p) ==
    LET b == blocksToReplace[p]
    IN  b.leftBlock[1]..b.rightBlock[Len(b.rightBlock)]

\* Searching backward from the marker m, a structural line is met before
\* any cue.
MeetsStructural(seq, m, run) ==
    \E s \in 1..(m - 1) :
        /\ seq[s].type \in StructuralTypes
        /\ \A k \in (s + 1)..(m - 1) : seq[k].type \in run \cup { "empty" }

FlagCount(f) ==
    Cardinality({ n \in { "lastLineWasCharacter", "lastLineWasParenthetical",
                          "lastLineWasDialogue" } : f[n] })

\* The flag a line of the given type sets, "none" for the other types.
FlagOf(type) ==
    CASE type = "character"     -> "lastLineWasCharacter"
      [] type = "parenthetical" -> "lastLineWasParenthetical"
      [] type = "dialogue"      -> "lastLineWasDialogue"
      [] OTHER                  -> "none"

\* The type the simple extension gave line k, in the names of parseFountain.
LiveType(k) ==
    CASE LiveClass(k) = "none" -> "empty"
      [] LiveClass(k) = "fountain-dialogue" /\ IsWhitespaceOnly(rawLines[k])
                                 -> "dialogue-blank"
      [] LiveClass(k) = "fountain-character"     -> "character"
      [] LiveClass(k) = "fountain-parenthetical" -> "parenthetical"
      [] LiveClass(k) = "fountain-dialogue"      -> "dialogue"
      [] OTHER                                   -> "other"

\* The flags f after line k agree with the types type[1..k] of the lines.
FlagsFollowTypes(f, type, k) ==
    /\ FlagCount(f) <= 1
    /\ \A j \in 1..k :
           /\ type[j] # "dialogue-blank"
           /\ \A q \in (j + 1)..k : type[q] = "dialogue-blank"
           /\ FlagOf(type[j]) # "none"
           => FlagCount(f) = 1 /\ f[FlagOf(type[j])]
    /\ type[k] = "empty" => f.lastLineWasEmpty

FlagsExclusive ==
    /\ ClassifierInit.lastLineWasEmpty
    /\ FlagCount(ClassifierInit) = 0
    /\ \A k \in 1..Len(rawLines) :
           /\ FlagsFollowTypes(pfTrace[k],
                               [ j \in 1..k |-> result[j].type ], k)
           /\ FlagsFollowTypes(liveTrace[k], [ j \in 1..k |-> LiveType(j) ], k)

\* A cue, a dialogue continuation behind it, and a parenthetical: the flag
\* of the cue is held over the continuation and gives way to the next.
FlagsExclusiveWitness ==
    /\ Len(rawLines) = 3
    /\ result[1].type = "character" /\ LiveType(1) = "character"
    /\ result[2].type = "dialogue-blank" /\ LiveType(2) = "dialogue-blank"
    /\ pfTrace[2].lastLineWasCharacter /\ liveTrace[2].lastLineWasCharacter
    /\ result[3].type = "parenthetical" /\ LiveType(3) = "parenthetical"
    /\ pfTrace[3].lastLineWasParenthetical
    /\ liveTrace[3].lastLineWasParenthetical

(***************************************************************************)
(* C23  A zero-length line resets the classifier: after it the four flags  *)
(* are those a document starts with, in parseFountain and in the simple    *)
(* extension, and the lines behind it are classified as they are when the  *)
(* document starts right behind it, whatever stands before it.             *)
(***************************************************************************)
\* The classes the loop of the simple extension gives the lines of a whole
\* document.
RECURSIVE LiveFrom(_, _, _)
LiveFrom(lines, f, acc) ==
    IF lines = << >> THEN acc
    ELSE LET o == LiveLine(f, Head(lines))
         IN  LiveFrom(Tail(lines), o.flags, Append(acc, o.class))

\* The lines of the document behind line k.
Behind(k) == SubSeq(rawLines, k + 1, Len(rawLines))

EmptyLineResets ==
    \A k \in 1..Len(rawLines) :
        rawLines[k] = << >> =>
            /\ pfTrace[k] = ClassifierInit
            /\ liveTrace[k] = ClassifierInit
            /\ SubSeq(result, k + 1, Len(result))
                   = parseFountain(Behind(k), ZeroIndex).result
            /\ [ j \in 1..(Len(rawLines) - k) |-> LiveClass(k + j) ]
                   = LiveFrom(Behind(k), ClassifierInit, << >>)

\* A cue, a zero-length line, and a line of text that is action, not
\* dialogue.
EmptyLineResetsWitness ==
    /\ Len(rawLines) = 3
    /\ result[1].type = "character" /\ LiveClass(1) = "fountain-character"
    /\ rawLines[2] = << >>
    /\ result[3].type = "action" /\ LiveClass(3) = "fountain-action"

(***************************************************************************)
(* C24  A whitespace-only line outside a dialogue block is empty.  As      *)
(* stated: a line of non-zero length that holds whitespace only, read      *)
(* while none of the three dialogue flags is set, is classified empty and  *)
(* leaves the flags as a zero-length line does, so that a line behind it   *)
(* that matches the character pattern is classified character.             *)
(***************************************************************************)
\* Line k holds whitespace only and is read by parseFountain, or by the
\* simple extension, outside a dialogue block.
BlankOutsideDialogue(k) ==
    IsWhitespaceOnly(rawLines[k]) /\ ~InDialogueContext(PfBefore(k))

LiveBlankOutsideDialogue(k) ==
    IsWhitespaceOnly(rawLines[k]) /\ ~InDialogueContext(LiveBefore(k))

\* Line k + 1 is one of those the statement speaks of.
CueBehind(k, nonBlank) ==
    /\ k < Len(rawLines)
    /\ Matches("character", rawLines[k + 1])
    /\ nonBlank => Trim(rawLines[k + 1]) # << >>

WhitespaceOutsideDialogueAsStated ==
    \A k \in 1..Len(rawLines) :
        /\ BlankOutsideDialogue(k) =>
               /\ result[k].type = "empty"
               /\ pfTrace[k] = ClassifierInit
               /\ CueBehind(k, FALSE) => result[k + 1].type = "character"
        /\ LiveBlankOutsideDialogue(k) =>
               /\ LiveClass(k) = "none"
               /\ liveTrace[k] = ClassifierInit
               /\ CueBehind(k, FALSE) => LiveClass(k + 1) = "fountain-character"

(***************************************************************************)
(* C24 as amended: the line behind is non-blank.  A whitespace-only line   *)
(* matches the character pattern as well and is classified by the blank    *)
(* rule.                                                                   *)
(***************************************************************************)
WhitespaceOutsideDialogue ==
    \A k \in 1..Len(rawLines) :
        /\ BlankOutsideDialogue(k) =>
               /\ result[k].type = "empty"
               /\ pfTrace[k] = ClassifierInit
               /\ CueBehind(k, TRUE) => result[k + 1].type = "character"
        /\ LiveBlankOutsideDialogue(k) =>
               /\ LiveClass(k) = "none"
               /\ liveTrace[k] = ClassifierInit
               /\ CueBehind(k, TRUE) => LiveClass(k + 1) = "fountain-character"

\* A line of text, a whitespace-only line, and a cue behind it.
WhitespaceOutsideDialogueWitness ==
    /\ Len(rawLines) = 3
    /\ result[1].type = "action"
    /\ BlankOutsideDialogue(2) /\ LiveBlankOutsideDialogue(2)
    /\ CueBehind(2, TRUE)
    /\ result[3].type = "character" /\ LiveClass(3) = "fountain-character"

(***************************************************************************)
(* C25  Structural rules come before the dialogue rules.  As stated: in    *)
(* every classifier state a non-blank line that matches the scene-heading, *)
(* centered, section-heading or transition pattern is not classified       *)
(* character, parenthetical or dialogue, the three dialogue flags are      *)
(* false after it, and the next line is neither dialogue nor               *)
(* parenthetical; a line in capitals that ends with TO: and follows a      *)
(* blank line is a transition.  This in parseFountain and in the simple    *)
(* extension.                                                              *)
(***************************************************************************)
DialogueTypes == { "character", "parenthetical", "dialogue" }

\* t matches one of the patterns the simple extension tests.
IsStructuralLive(t) ==
    \/ Matches("sceneHeading", t)
    \/ Matches("centered", t)
    \/ Matches("transition", t)

\* parseFountain on the structural line k.
StructuralPreempts(k) ==
    /\ result[k].type \notin DialogueTypes
    /\ ~InDialogueContext(pfTrace[k])
    /\ k < Len(rawLines) =>
           result[k + 1].type \notin { "dialogue", "parenthetical" }
    /\ Trim(rawLines[k]) = << "G", "O", " ", "T", "O", ":" >> =>
           result[k].type = "transition"

\* The simple extension on the structural line k.
StructuralPreemptsLive(k) ==
    /\ LiveType(k) \notin DialogueTypes
    /\ ~InDialogueContext(liveTrace[k])
    /\ k < Len(rawLines) =>
           LiveType(k + 1) \notin { "dialogue", "parenthetical" }
    /\ Trim(rawLines[k]) = << "G", "O", " ", "T", "O", ":" >> =>
           LiveClass(k) = "fountain-transition"

StructuralBeforeDialogueAsStated ==
    \A k \in 1..Len(rawLines) :
        Trim(rawLines[k]) # << >> /\ IsStructural(Trim(rawLines[k])) =>
            StructuralPreempts(k) /\ StructuralPreemptsLive(k)

(***************************************************************************)
(* C25 as amended: the section-heading pattern is a rule of parseFountain  *)
(* alone.  The simple extension has no such rule and classifies a line     *)
(* that begins with # by its later rules, as dialogue inside a dialogue    *)
(* block.                                                                  *)
(***************************************************************************)
StructuralBeforeDialogue ==
    \A k \in 1..Len(rawLines) :
        Trim(rawLines[k]) # << >> =>
            /\ IsStructural(Trim(rawLines[k])) => StructuralPreempts(k)
            /\ IsStructuralLive(Trim(rawLines[k])) => StructuralPreemptsLive(k)
            /\ /\ SectionHeadingTest(Trim(rawLines[k]))
               /\ ~IsStructuralLive(Trim(rawLines[k]))
               /\ InDialogueContext(LiveBefore(k))
               => LiveType(k) = "dialogue"

\* A cue, a transition in capitals read inside its dialogue block, and a
\* line of text that is action in both classifiers.
StructuralBeforeDialogueWitness ==
    /\ Len(rawLines) = 3
    /\ result[1].type = "character" /\ LiveType(1) = "character"
    /\ Trim(rawLines[2]) = << "G", "O", " ", "T", "O", ":" >>
    /\ result[2].type = "transition" /\ LiveClass(2) = "fountain-transition"
    /\ result[3].type = "action" /\ LiveClass(3) = "fountain-action"

(***************************************************************************)
(* C26  A cue needs a blank line before it.  As stated: in both editor     *)
(* classifiers every line classified character is the first line or        *)
(* follows a line classified empty; in parseFountain so does every         *)
(* character line whose trimmed text does not end with the caret; and a    *)
(* line that matches the character pattern, does not end with the caret    *)
(* and is read inside a dialogue block is classified dialogue.             *)
(***************************************************************************)
\* Line k is the first line or follows a line of type empty in type.
AfterBlank(type, k) == k = 1 \/ type[k - 1] = "empty"

\* The types the three classifiers gave the lines read so far.
PfTypes == [ k \in 1..Len(rawLines) |-> result[k].type ]

LiveTypes == [ k \in 1..Len(rawLines) |-> LiveType(k) ]

DecoTypes == [ k \in 1..Len(rawLines) |-> decos[k].type ]

\* Line k matches the character pattern and does not end with the caret.
IsPlainCueText(k) ==
    Matches("character", rawLines[k]) /\ ~EndsWith(Trim(rawLines[k]), "^")

\* Line k is read by the editor extension with the widget inside a dialogue
\* block: its flags are those the line before set.
DecoInContext(k) == k > 1 /\ decos[k - 1].type \in DialogueTypes

CuesFollowBlanks ==
    \A k \in 1..Len(rawLines) :
        /\ LiveType(k) = "character" => AfterBlank(LiveTypes, k)
        /\ decos[k].type = "character" => AfterBlank(DecoTypes, k)
        /\ result[k].type = "character" /\ ~EndsWith(result[k].text, "^") =>
               AfterBlank(PfTypes, k)

CueNeedsBlankAsStated ==
    /\ CuesFollowBlanks
    /\ \A k \in 1..Len(rawLines) :
           IsPlainCueText(k) =>
               /\ InDialogueContext(PfBefore(k)) => result[k].type = "dialogue"
               /\ InDialogueContext(LiveBefore(k)) => LiveType(k) = "dialogue"
               /\ DecoInContext(k) => decos[k].type = "dialogue"

(***************************************************************************)
(* C26 as amended: such a line, when non-blank, is not classified          *)
(* character; it is parenthetical when its trimmed text is wrapped in      *)
(* parentheses and dialogue otherwise.  A whitespace-only line matches the *)
(* character pattern too and is classified by the blank rule.              *)
(***************************************************************************)
\* The type of a non-blank line read inside a dialogue block, cues aside.
InBlockType(k) ==
    IF Matches("parenthetical", Trim(rawLines[k]))
    THEN "parenthetical" ELSE "dialogue"

CueNeedsBlank ==
    /\ CuesFollowBlanks
    /\ \A k \in 1..Len(rawLines) :
           IsPlainCueText(k) /\ Trim(rawLines[k]) # << >> =>
               /\ InDialogueContext(PfBefore(k)) => result[k].type = InBlockType(k)
               /\ InDialogueContext(LiveBefore(k)) => LiveType(k) = InBlockType(k)
               /\ DecoInContext(k) => decos[k].type = InBlockType(k)

\* A cue, a second cue text right behind it that is dialogue in the three
\* classifiers, and a marker behind that which parseFountain alone makes a
\* cue.
CueNeedsBlankWitness ==
    /\ Len(rawLines) = 3
    /\ result[1].type = "character"
    /\ IsPlainCueText(2) /\ Trim(rawLines[2]) # << >>
    /\ result[2].type = "dialogue" /\ LiveType(2) = "dialogue"
    /\ decos[2].type = "dialogue"
    /\ result[3].type = "character" /\ EndsWith(result[3].text, "^")
    /\ LiveType(3) = "dialogue" /\ decos[3].type = "dialogue"

(***************************************************************************)
(* C27  Adjacent dual marker.  As stated: in parseFountain a line read     *)
(* inside a dialogue block that matches the character pattern, ends with   *)
(* the caret and is neither scene heading nor transition is classified     *)
(* character, with no blank line before it; fountainToHTML then makes one  *)
(* dual block of the cue group right before it and the group it heads,     *)
(* with no empty line in between.                                          *)
(***************************************************************************)
\* Line m takes the dual-marker branch of parseFountain.
IsAdjacentMarker(m) ==
    /\ InDialogueContext(PfBefore(m))
    /\ IsMarkerText(rawLines[m])
    /\ ~Matches("sceneHeading", Trim(rawLines[m]))
    /\ ~Matches("transition", Trim(rawLines[m]))

\* The cue of the dialogue block line m is read in.
CueBefore(m) ==
    CHOOSE a \in 1..(m - 1) :
        /\ result[a].type = "character"
        /\ \A k \in (a + 1)..(m - 1) : result[k].type \in PreviewRun

\* One dual block is made of the group of the cue a, which ends right
\* before m, and the group of the marker m.
PairedAdjacent(a, m) ==
    \E n \in DualNodes :
        /\ htmlParts[n].at = a
        /\ htmlParts[n].left = SubSeq(result, a, m - 1)
        /\ htmlParts[n].rightAt = m
        /\ htmlParts[n].right = SubSeq(result, m, GroupEnd(result, m, PreviewRun))

AdjacentMarkerAsStated ==
    \A m \in 1..Len(rawLines) :
        IsAdjacentMarker(m) =>
            /\ IsDualMarker(result[m])
            /\ result[m - 1].type # "empty"
            /\ Rendered => PairedAdjacent(CueBefore(m), m)

(***************************************************************************)
(* C27 as amended: the two groups are paired unless the cue group before   *)
(* the marker is itself the right group of a dual block; the marker is     *)
(* then the right cue of no block.                                         *)
(***************************************************************************)
AdjacentMarker ==
    \A m \in 1..Len(rawLines) :
        IsAdjacentMarker(m) =>
            /\ IsDualMarker(result[m])
            /\ result[m - 1].type # "empty"
            /\ Rendered =>
                   IF IsRightCue(CueBefore(m))
                   THEN ~IsRightCue(m)
                   ELSE PairedAdjacent(CueBefore(m), m)

\* A cue with a line of dialogue and, right behind it, a marker with one:
\* two groups of two lines in one block.
AdjacentMarkerWitness ==
    /\ Rendered
    /\ Len(rawLines) = 4
    /\ IsAdjacentMarker(3)
    /\ result[2].type = "dialogue" /\ result[4].type = "dialogue"
    /\ PairedAdjacent(1, 3)

(***************************************************************************)
(* C28  Transition rule: a non-blank line that is neither scene heading,   *)
(* nor centered, nor section heading is classified transition by           *)
(* parseFountain exactly when its trimmed text is words in capitals        *)
(* ending with TO:, or is FADE TO BLACK., FADE OUT. or CUT TO BLACK., or   *)
(* begins with > and does not end with <.  A line that holds a small       *)
(* letter and does not begin with > is never a transition; every line      *)
(* that begins with > and does not end with <, the line > included, is.    *)
(***************************************************************************)
\* t is words in capitals ending with TO:.
IsCapitalsTo(t) ==
    /\ Len(t) >= 4
    /\ SubSeq(t, Len(t) - 2, Len(t)) = << "T", "O", ":" >>
    /\ \A n \in 1..(Len(t) - 3) : t[n] \in Upper \cup Whitespace

\* t is a transition by the three cases of the rule.
IsTransitionText(t) ==
    \/ IsCapitalsTo(t)
    \/ t \in TransitionLiterals
    \/ t[1] = ">" /\ t[Len(t)] # "<"

\* Line k reaches the transition rule of parseFountain.
ReachesTransitionRule(k) ==
    /\ Trim(rawLines[k]) # << >>
    /\ ~Matches("sceneHeading", Trim(rawLines[k]))
    /\ ~Matches("centered", Trim(rawLines[k]))
    /\ ~SectionHeadingTest(Trim(rawLines[k]))

TransitionAsStated ==
    \A k \in 1..Len(rawLines) :
        ReachesTransitionRule(k) =>
            /\ result[k].type = "transition" <=> IsTransitionText(Trim(rawLines[k]))
            /\ /\ \E n \in 1..Len(rawLines[k]) : rawLines[k][n] \in Lower
               /\ Trim(rawLines[k])[1] # ">"
               => result[k].type # "transition"

(***************************************************************************)
(* C29  The level of a section heading is bounded.  In parseFountain a     *)
(* line whose trimmed text begins with n # characters, n from 1 to 6,      *)
(* followed by whitespace is classified section heading of level           *)
(* min(n, 3), so the level is 1, 2 or 3; a line that begins with 7 or more *)
(* # characters, or with # characters that no whitespace follows, is not   *)
(* a section heading; the three dialogue flags are false after a section   *)
(* heading.                                                                *)
(***************************************************************************)
SectionTypes ==
    { "section-heading-1", "section-heading-2", "section-heading-3" }

\* t begins with n # characters and whitespace follows them.
BeginsWithHashes(t, n) ==
    /\ Len(t) > n
    /\ \A m \in 1..n : t[m] = "#"
    /\ t[n + 1] \in Whitespace

\* t begins with # characters that no whitespace follows.
HashesAlone(t) ==
    \E n \in 1..Len(t) :
        /\ \A m \in 1..n : t[m] = "#"
        /\ Len(t) = n \/ t[n + 1] \notin Whitespace \cup { "#" }

SectionHeadingLevel ==
    \A k \in 1..Len(rawLines) :
        LET t == Trim(rawLines[k])
        IN  /\ \A n \in 1..6 :
                   BeginsWithHashes(t, n) =>
                       /\ n = 1 => result[k].type = "section-heading-1"
                       /\ n = 2 => result[k].type = "section-heading-2"
                       /\ n >= 3 => result[k].type = "section-heading-3"
                       /\ ~InDialogueContext(pfTrace[k])
            /\ HashesAlone(t) \/ (\E n \in 7..Len(t) : BeginsWithHashes(t, n)) =>
                   result[k].type \notin SectionTypes
            /\ result[k].type \in LineTypes

\* A heading of six # characters read inside a dialogue block has level 3,
\* and the line of text behind it is action.
SectionHeadingLevelWitness ==
    /\ Len(rawLines) = 3
    /\ result[1].type = "character"
    /\ BeginsWithHashes(Trim(rawLines[2]), 6)
    /\ result[2].type = "section-heading-3"
    /\ result[3].type = "action"

(***************************************************************************)
(* C30  No lookahead: the records parseFountain gives the first n lines of *)
(* a document are the records it gives the document made of these n lines  *)
(* alone, so a line added to a document changes no record of an earlier    *)
(* line.                                                                   *)
(***************************************************************************)
PrefixStable ==
    LET whole == parseFountain(rawLines, ZeroIndex).result
    IN  \A n \in 1..Len(rawLines) :
            LET part == parseFountain(SubSeq(rawLines, 1, n), ZeroIndex).result
            IN  /\ part = SubSeq(whole, 1, n)
                /\ part = SubSeq(result, 1, n)

\* A cue stays a cue when the line behind it is empty, and the text behind
\* that is action.
PrefixStableWitness ==
    /\ Len(rawLines) = 3
    /\ result[1].type = "character"
    /\ result[2].type = "empty"
    /\ result[3].type = "action"
    /\ parseFountain(SubSeq(rawLines, 1, 1), ZeroIndex).result[1].type = "character"

(***************************************************************************)
(* C31  Empty-line rendering policy.  fountainToHTML emits every empty     *)
(* record that no dual block takes in as exactly one node of class         *)
(* fountain-empty, and a dialogue-blank record as a node of that class     *)
(* where its group stands; the editor extensions push no line decoration   *)
(* for a line they hold empty; and the lines parseFountain classifies      *)
(* empty are the lines each editor extension classifies empty.             *)
(***************************************************************************)
\* Line k lies between the first and the last line of a dual block.
InDualNode(k) ==
    \E n \in DualNodes : NodeFirst(htmlParts[n]) <= k /\ k <= NodeLast(htmlParts[n])

\* Line k stands in a column of a dual block as a blank placeholder.
BlankInColumn(k) ==
    \E n \in DualNodes :
        \/ \E j \in 1..Len(htmlParts[n].left) :
              /\ htmlParts[n].at + j - 1 = k
              /\ htmlParts[n].html[1][j].class = "fountain-empty"
        \/ \E j \in 1..Len(htmlParts[n].right) :
              /\ htmlParts[n].rightAt + j - 1 = k
              /\ htmlParts[n].html[2][j].class = "fountain-empty"

\* The single nodes that stand for line k.
NodesAt(k) == { n \in SingleNodes : htmlParts[n].at = k }

PreviewPlaceholders ==
    \A k \in 1..Len(result) :
        /\ result[k].type = "empty" /\ ~InDualNode(k) =>
               /\ Cardinality(NodesAt(k)) = 1
               /\ \A n \in NodesAt(k) : htmlParts[n].html.class = "fountain-empty"
        /\ result[k].type = "dialogue-blank" =>
               IF InDualNode(k) THEN BlankInColumn(k)
               ELSE /\ Cardinality(NodesAt(k)) = 1
                    /\ \A n \in NodesAt(k) :
                           htmlParts[n].html.class = "fountain-empty"

\* Neither extension decorates a line it classified empty.
EditorOmitsEmpty ==
    \A k \in 1..Len(decos) :
        /\ decos[k].type = "empty" =>
               \A d \in lineDecos : d.from # decos[k].from
        /\ Trim(rawLines[k]) = << >> /\ ~InDialogueContext(LiveBefore(k)) =>
               LiveClass(k) = "none"

\* The three classifiers hold the same lines empty.
SameEmptyLines ==
    \A k \in 1..Len(rawLines) :
        /\ result[k].type = "empty" <=> decos[k].type = "empty"
        /\ result[k].type = "empty" <=> LiveClass(k) = "none"

EmptyLinePolicy ==
    Rendered => /\ PreviewPlaceholders
                /\ EditorOmitsEmpty
                /\ SameEmptyLines

\* The two parts that are about rendering alone.
EmptyLineRendering == Rendered => PreviewPlaceholders /\ EditorOmitsEmpty

(***************************************************************************)
(* C32  No-file handling in the preview view.  While no file is tracked, a *)
(* call of renderFile assigns the "open a file" placeholder to the pane,   *)
(* suspends no read of the vault and leaves the classifier's state as it   *)
(* was; a call of exportPdf shows the notice "No file loaded in preview."  *)
(* and leaves the print modal closed and untouched; and neither call       *)
(* changes the tracked file or acts on a view whose elements do not exist. *)
(***************************************************************************)
\* This step holds a call of renderFile made while no file is tracked.
RenderFileOnNoFile == trackedFile' = NoFile /\ started' # started

\* This step holds a call of exportPdf made while no file is tracked.
ExportPdfOnNoFile == trackedFile = NoFile /\ notices' # notices

NoFileStep ==
    /\ RenderFileOnNoFile =>
           /\ innerHTML' = NoFileMessage
           /\ shownBy' = started'
           /\ reads' = reads /\ reads = {}
           /\ UNCHANGED << lastIndex, viewCoreVars >>
           /\ trackedFile = NoFile
           /\ opened'
    /\ ExportPdfOnNoFile =>
           /\ notices' = Append(notices, NoFileNotice)
           /\ phase = "closed"
           /\ UNCHANGED printVars
           /\ UNCHANGED << coreVars, viewVars, shownFile >>
           /\ opened

NoFileHandling == [][NoFileStep]_vars

\* With no file tracked the pane has been refreshed after it was opened,
\* and the export button has been pressed.
NoFileHandlingWitness ==
    /\ trackedFile = NoFile
    /\ started >= 2
    /\ innerHTML = NoFileMessage
    /\ notices = << NoFileNotice >>
    /\ phase = "closed"
    /\ reads = {}

(***************************************************************************)
(* C33  The preview follows the tracked file: once no renderFile is        *)
(* suspended at its await, the pane of an open view that tracks a file     *)
(* shows what a render invocation made of that file, never what one made   *)
(* of a file tracked before.                                               *)
(***************************************************************************)
FollowsTrackedFile ==
    opened /\ reads = {} /\ trackedFile # NoFile => shownFile = trackedFile

(***************************************************************************)
(* C34  Every dialogue run is headed by a character cue.  In the output of *)
(* each of the three classifiers a dialogue, parenthetical or              *)
(* dialogue-blank line is never the first line and the line before it is a *)
(* character, dialogue, parenthetical or dialogue-blank line; and going    *)
(* back from such a line over lines of these three types, a character line *)
(* is met.                                                                 *)
(***************************************************************************)
\* Line k of the typed sequence type has a cue at the head of its run.
HeadedByCue(type, k) ==
    \E c \in 1..(k - 1) :
        /\ type[c] = "character"
        /\ \A j \in (c + 1)..k : type[j] \in PreviewRun

RunsHeaded(type) ==
    \A k \in 1..Len(type) :
        type[k] \in PreviewRun =>
            /\ k > 1
            /\ type[k - 1] \in PreviewRun \cup { "character" }
            /\ HeadedByCue(type, k)

DialogueRunsHeaded ==
    /\ RunsHeaded(PfTypes)
    /\ RunsHeaded(DecoTypes)
    /\ RunsHeaded(LiveTypes)

\* A cue and its line of dialogue, then a scene heading and a line of plain
\* text that no cue heads: every classifier ends the run at the heading.
DialogueRunsHeadedWitness ==
    /\ Len(rawLines) = 4
    /\ PfTypes = << "character", "dialogue", "scene-heading", "action" >>
    /\ DecoTypes = PfTypes
    /\ LiveTypes = << "character", "dialogue", "other", "other" >>

(***************************************************************************)
(* C35  lastLineWasEmpty tracks exactly the previous line.  In             *)
(* parseFountain and in the simple extension lastLineWasEmpty is true      *)
(* before the first line, and after each line it is true exactly when that *)
(* line was classified empty; it is never true together with one of the    *)
(* three dialogue flags, and a dialogue-blank line leaves it false.        *)
(***************************************************************************)
\* f are the locals after a line of the given type.
TracksEmpty(f, type) ==
    /\ f.lastLineWasEmpty <=> type = "empty"
    /\ ~(f.lastLineWasEmpty /\ InDialogueContext(f))

LastLineWasEmptyTracks ==
    /\ ClassifierInit.lastLineWasEmpty
    /\ ~InDialogueContext(ClassifierInit)
    /\ \A k \in 1..Len(rawLines) :
           /\ TracksEmpty(pfTrace[k], result[k].type)
           /\ TracksEmpty(liveTrace[k], LiveType(k))
    /\ pfFlags = (IF rawLines = << >> THEN ClassifierInit
                  ELSE pfTrace[Len(rawLines)])
    /\ liveFlags = (IF rawLines = << >> THEN ClassifierInit
                    ELSE liveTrace[Len(rawLines)])

\* A cue read after an empty line, then a whitespace-only line that
\* continues its dialogue.
LastLineWasEmptyTracksWitness ==
    /\ Len(rawLines) = 3
    /\ PfTypes = << "empty", "character", "dialogue-blank" >>
    /\ LiveTypes = PfTypes
    /\ pfTrace[1].lastLineWasEmpty
    /\ ~pfTrace[3].lastLineWasEmpty
    /\ InDialogueContext(liveTrace[3])

(***************************************************************************)
(* C36  At most one scroll-sync listener.  Whatever onOpen, the            *)
(* active-leaf-change handler, Refresh and onClose have done, at most one  *)
(* handler made by attachScrollSync is attached to an editor scroller,     *)
(* scrollSyncCleanup is non-null exactly when one is attached and then     *)
(* names it, and after onClose none is attached.                           *)
(***************************************************************************)
OneScrollListener ==
    /\ Cardinality(listeners) <= 1
    /\ scrollSyncCleanup # NoCleanup <=> listeners # {}
    /\ scrollSyncCleanup # NoCleanup => listeners = { scrollSyncCleanup }
    /\ closed => listeners = {}

\* A second handler is attached, to the scroller of another editor, the
\* first having been made when the view was opened.
OneScrollListenerWitness ==
    /\ opened
    /\ attached >= 2
    /\ \E l \in listeners : l.handler = 2 /\ l.editor = trackedFile
    /\ Len(leaves) = 2 /\ trackedFile = leaves[2]

\* The view was closed while a handler was attached.
ScrollListenerClosedWitness ==
    closed /\ attached >= 1 /\ listeners = {} /\ scrollSyncCleanup = NoCleanup

(***************************************************************************)
(* C37  activatePreview reuses an existing preview.  A call made while a   *)
(* leaf shows the preview view reveals the first such leaf and neither     *)
(* creates a leaf nor changes the view state of any leaf; and after calls  *)
(* that each ran to completion at most one leaf shows the preview view.    *)
(***************************************************************************)
\* This step holds a call of activatePreview.
ActivateCalled == activated' # activated

ReuseStep ==
    /\ ActivateCalled /\ PreviewLeaves # {} =>
           /\ leafType' = leafType
           /\ activations' = activations
           /\ revealed' = FirstOf(PreviewLeaves)
    /\ Cardinality(PreviewLeaves') <= 1

ActivateReuses == [][ReuseStep]_vars

\* activatePreview was called three times, every call ran to its end, and
\* beside another pane of the sidebar one leaf shows the preview and is the
\* leaf revealed last.
ActivateReusesWitness ==
    /\ activated = 3
    /\ activations = {}
    /\ Cardinality(PreviewLeaves) = 1
    /\ revealed \in PreviewLeaves
    /\ \E l \in SideLeaves : leafType[l] = "outline"

=============================================================================
